---- MODULE Spec2Model ----
(***************************************************************************)
(* Recording / transcription pipeline of s2t_basic.                        *)
(*                                                                         *)
(*   RecordingSession        src/src/domain/entities/recording_session.py  *)
(*   SoundDeviceRecorder     src/src/infrastructure/audio/                 *)
(*                               sounddevice_recorder.py                   *)
(*   ManageRecordingUseCase  src/src/application/use_cases/                *)
(*                               manage_recording.py                       *)
(*   RecordAndTranscribeUseCase                                            *)
(*                           src/src/application/use_cases/                *)
(*                               record_and_transcribe.py                  *)
(*                                                                         *)
(* Scaling.  Amplitudes are integers in units of 0.001.  Texts are tuples  *)
(* of one-character strings.  Points in time are integers (clock ticks);   *)
(* an unset time is NoTime and an unset message is None.                   *)
(***************************************************************************)
EXTENDS Integers, Sequences, FiniteSets, TLC

VARIABLES
    sessions,   \* the RecordingSessions created so far, by id; a session that
                \* nothing refers to any more is Collected
    clock,      \* datetime.now()
    rec,        \* the shared SoundDeviceRecorder
    mgr,        \* ManageRecordingUseCase: current_session (0 = None)
    ret,        \* what the last call returned (or raised) to its caller
    calls,      \* collaborator calls made by the last call, in order
    sent,       \* texts handed to the text dispatcher by the last call
    request,    \* the request the last execute was given (<<>> = none)
    thr,        \* the recorder's threads: where the control thread is inside
                \* start_recording / stop_recording and what the stream's
                \* callback thread holds
    cli,        \* run_modular_cli: current_session (0 = None)
    kbd,        \* KeyboardSimulator: debounce_time, last_release_times
    legacy,     \* SpeechToText (speech_to_text.py)
    whisper,    \* WhisperAdapter and the temporary files on disk
    win,        \* the desktop's windows and what was typed into them
    pure        \* the last call of a validator or parser function

vars ==
    <<sessions, clock, rec, mgr, ret, calls, sent, request, thr, cli, kbd, legacy,
      whisper, win, pure>>

\* ---------------------------------------------------------------- bounds
MaxClock == 4        \* ticks of the clock while the entity is driven
MaxSessions == 2     \* sessions created in one run
MaxBlocks == 3       \* blocks queued in one recording

\* ------------------------------------------------------------ None values
None == "None"
NoTime == -1
NoSession == 0

\* ------------------------------------------------------ RecordingSession
RecordingState == {"idle", "recording", "processing", "completed", "error"}

\* f"{self.state}" of an Enum member
StateRepr(st) ==
    CASE st = "idle" -> "RecordingState.IDLE"
      [] st = "recording" -> "RecordingState.RECORDING"
      [] st = "processing" -> "RecordingState.PROCESSING"
      [] st = "completed" -> "RecordingState.COMPLETED"
      [] st = "error" -> "RecordingState.ERROR"

\* RecordingSession.create
SessionCreate(id, device_id) ==
    [id |-> id, state |-> "idle", start_time |-> NoTime, end_time |-> NoTime,
     error_message |-> None, device_id |-> device_id]

\* what is left of a session once no use case, response or caller holds it
Collected(id) ==
    [id |-> id, state |-> "collected", start_time |-> NoTime, end_time |-> NoTime,
     error_message |-> None, device_id |-> -1]

Collect(ss, live) ==
    [i \in 1..Len(ss) |-> IF i \in live THEN ss[i] ELSE Collected(i)]

\* The session methods return the session after the call and the message of
\* the exception the call raised (None when it returned normally).
SessionStart_LegalFromCompleted(s, now) ==
    IF s.state \notin {"idle", "completed"}
    THEN [s |-> s, raised |-> "Cannot start recording from state " \o StateRepr(s.state)]
    ELSE [s |-> [s EXCEPT !.state = "recording", !.start_time = now,
                           !.end_time = NoTime, !.error_message = None],
          raised |-> None]

SessionStart(s, now) ==
    IF s.state # "idle"
    THEN [s |-> s, raised |-> "Cannot start recording from state " \o StateRepr(s.state)]
    ELSE [s |-> [s EXCEPT !.state = "recording", !.start_time = now,
                           !.end_time = NoTime, !.error_message = None],
          raised |-> None]

SessionStop_LegalFromCompleted(s, now) ==
    IF s.state \notin {"recording", "completed"}
    THEN [s |-> s, raised |-> "Cannot stop recording from state " \o StateRepr(s.state)]
    ELSE [s |-> [s EXCEPT !.state = "processing", !.end_time = now],
          raised |-> None]

SessionStop(s, now) ==
    IF s.state # "recording"
    THEN [s |-> s, raised |-> "Cannot stop recording from state " \o StateRepr(s.state)]
    ELSE [s |-> [s EXCEPT !.state = "processing", !.end_time = now],
          raised |-> None]

SessionComplete(s) ==
    IF s.state # "processing"
    THEN [s |-> s, raised |-> "Cannot complete recording from state " \o StateRepr(s.state)]
    ELSE [s |-> [s EXCEPT !.state = "completed"], raised |-> None]

SessionFail_KeepsCompleted(s, error_message, now) ==
    IF s.state = "completed"
    THEN [s |-> s, raised |-> None]
    ELSE [s |-> [s EXCEPT !.state = "error", !.error_message = error_message],
          raised |-> None]

SessionFail_DropsReason(s, error_message, now) ==
    [s |-> [s EXCEPT !.state = "error"], raised |-> None]

SessionFail_RestartsFromError(s, error_message, now) ==
    IF s.state = "error"
    THEN [s |-> [s EXCEPT !.state = "idle", !.error_message = error_message],
          raised |-> None]
    ELSE [s |-> [s EXCEPT !.state = "error", !.error_message = error_message],
          raised |-> None]

\* fail() assigns the state first and tests it afterwards
SessionFail(s, error_message, now) ==
    LET s1 == [s EXCEPT !.state = "error", !.error_message = error_message]
    IN  [s |-> IF s1.state = "recording" THEN [s1 EXCEPT !.end_time = now] ELSE s1,
         raised |-> None]

\* duration(), in clock ticks
SessionDuration(s, now) ==
    IF s.start_time # NoTime /\ s.end_time # NoTime
    THEN s.end_time - s.start_time
    ELSE IF s.start_time # NoTime /\ s.state = "recording"
         THEN now - s.start_time
         ELSE 0

\* ------------------------------------------------------------------ text
\* A str is a tuple of one-character strings.
UpperCase == <<"A", "B", "C", "D", "E", "F", "G", "H", "I", "J", "K", "L", "M",
               "N", "O", "P", "Q", "R", "S", "T", "U", "V", "W", "X", "Y", "Z">>
LowerCase == <<"a", "b", "c", "d", "e", "f", "g", "h", "i", "j", "k", "l", "m",
               "n", "o", "p", "q", "r", "s", "t", "u", "v", "w", "x", "y", "z">>

IsSpace(c) == c \in {" ", "\t", "\n"}

\* str.lower()
LowerOf == [c \in {UpperCase[i] : i \in 1..Len(UpperCase)} |->
              LowerCase[CHOOSE i \in 1..Len(UpperCase) : UpperCase[i] = c]]

LowerChar(c) == IF c \in DOMAIN LowerOf THEN LowerOf[c] ELSE c

Lower(t) == [i \in 1..Len(t) |-> LowerChar(t[i])]

RECURSIVE LStrip(_)
LStrip(t) == IF t # <<>> /\ IsSpace(Head(t)) THEN LStrip(Tail(t)) ELSE t

RECURSIVE RStrip(_)
RStrip(t) ==
    IF t # <<>> /\ IsSpace(t[Len(t)]) THEN RStrip(SubSeq(t, 1, Len(t) - 1)) ELSE t

\* str.strip()
Strip(t) == RStrip(LStrip(t))

\* str.split(): the words between runs of whitespace
RECURSIVE SplitWords(_, _)
SplitWords(t, word) ==
    IF t = <<>>
    THEN IF word = <<>> THEN <<>> ELSE <<word>>
    ELSE IF IsSpace(Head(t))
         THEN IF word = <<>>
              THEN SplitWords(Tail(t), <<>>)
              ELSE <<word>> \o SplitWords(Tail(t), <<>>)
         ELSE SplitWords(Tail(t), Append(word, Head(t)))

Split(t) == SplitWords(t, <<>>)

\* ' '.join(words)
RECURSIVE Join(_)
Join(words) ==
    IF words = <<>> THEN <<>>
    ELSE IF Len(words) = 1 THEN words[1]
    ELSE words[1] \o <<" ">> \o Join(Tail(words))

\* str.startswith(prefix)
StartsWith(t, prefix) ==
    Len(prefix) <= Len(t) /\ SubSeq(t, 1, Len(prefix)) = prefix

\* t[n:]
DropFirst(t, n) == IF n >= Len(t) THEN <<>> ELSE SubSeq(t, n + 1, Len(t))

\* TranscriptionText._clean_text
CleanText(t) == Strip(Join(Split(t)))

\* TranscriptionText.contains_command_prefix: the first prefix of the list
\* that the lowered cleaned text starts with, as <<found, prefix>>
RECURSIVE FirstPrefix(_, _)
FirstPrefix(lower_text, prefixes) ==
    IF prefixes = <<>> THEN <<FALSE, <<>> >>
    ELSE IF StartsWith(lower_text, Lower(Head(prefixes)))
         THEN <<TRUE, Head(prefixes)>>
         ELSE FirstPrefix(lower_text, Tail(prefixes))

ContainsCommandPrefix(cleaned, prefixes) ==
    LET lower_text == Lower(cleaned) IN FirstPrefix(lower_text, prefixes)

\* TranscriptionText.remove_prefix, giving the new cleaned_text
RemovePrefix_NoStrip(cleaned, prefix) ==
    IF StartsWith(Lower(cleaned), Lower(prefix))
    THEN DropFirst(cleaned, Len(prefix))
    ELSE cleaned

RemovePrefix(cleaned, prefix) ==
    IF StartsWith(Lower(cleaned), Lower(prefix))
    THEN Strip(DropFirst(cleaned, Len(prefix)))
    ELSE cleaned

\* -------------------------------------------------------- VoiceCommand
VoiceCommand(command_type, text, original_text, execute, target_window) ==
    [command_type |-> command_type, text |-> text, original_text |-> original_text,
     execute |-> execute, target_window |-> target_window]

\* VoiceCommand.create_text
CreateText_Execute(text) == VoiceCommand("text", text, text, TRUE, <<>>)

CreateText(text) == VoiceCommand("text", text, text, FALSE, <<>>)

\* VoiceCommand.create_execute
CreateExecute(text, original_text) ==
    VoiceCommand("execute", text, original_text, TRUE, <<>>)

\* VoiceCommand.should_execute
ShouldExecute(cmd) == cmd.execute \/ cmd.command_type = "execute"

\* VoiceCommand.has_text
HasText(cmd) == Len(Strip(cmd.text)) > 0

\* --------------------------------------------------- VoiceCommandParser
EXECUTE_PATTERNS ==
    << <<"e", "x", "e", "c", "u", "t", "e", " ", "m", "o", "d", "e">>,
       <<"e", "x", "e", "c", "u", "t", "e", " ", "c", "o", "m", "m", "a", "n", "d">>,
       <<"e", "x", "e", "c", "u", "t", "e">>,
       <<"r", "u", "n", " ", "c", "o", "m", "m", "a", "n", "d">>,
       <<"r", "u", "n", " ", "t", "h", "i", "s">>,
       <<"c", "o", "m", "m", "a", "n", "d", " ", "m", "o", "d", "e">> >>

WINDOW_PATTERNS ==
    << <<"t", "a", "r", "g", "e", "t", " ", "w", "i", "n", "d", "o", "w">>,
       <<"s", "e", "n", "d", " ", "t", "o", " ", "w", "i", "n", "d", "o", "w">>,
       <<"w", "i", "n", "d", "o", "w">> >>

CONFIG_PATTERNS ==
    << <<"c", "o", "n", "f", "i", "g">>,
       <<"c", "o", "n", "f", "i", "g", "u", "r", "e">>,
       <<"s", "e", "t", "t", "i", "n", "g", "s">>,
       <<"s", "e", "t", "u", "p">> >>

\* VoiceCommandParser.parse; target_window is <<>> for None, else <<label>>
Parse(text) ==
    IF text = <<>> \/ Strip(text) = <<>>
    THEN CreateText(<<>>)
    ELSE LET cleaned == CleanText(text)
             ex == ContainsCommandPrefix(cleaned, EXECUTE_PATTERNS)
             wi == ContainsCommandPrefix(cleaned, WINDOW_PATTERNS)
             co == ContainsCommandPrefix(cleaned, CONFIG_PATTERNS)
         IN  IF ex[1]
             THEN CreateExecute(RemovePrefix(cleaned, ex[2]), text)
             ELSE IF wi[1]
             THEN VoiceCommand("window_target", RemovePrefix(cleaned, wi[2]), text,
                               FALSE, <<RemovePrefix(cleaned, wi[2])>>)
             ELSE IF co[1]
             THEN VoiceCommand("config", RemovePrefix(cleaned, co[2]), text, FALSE, <<>>)
             ELSE CreateText(cleaned)

\* parse(text) with text <<>> for None and <<str>> otherwise
ParseOf(text) == IF text = <<>> THEN CreateText(<<>>) ELSE Parse(text[1])

\* ------------------------------------------------------ Transcription
\* The list of is_likely_hallucination; "U+266A" is the one character of the
\* musical-note entry.
Hallucinations ==
    << <<"t", "h", "a", "n", "k", " ", "y", "o", "u">>,
       <<"t", "h", "a", "n", "k", "s">>,
       <<"t", "h", "a", "n", "k", " ", "y", "o", "u", ".">>,
       <<"t", "h", "a", "n", "k", "s", ".">>,
       <<"t", "h", "a", "n", "k", " ", "y", "o", "u", " ", "f", "o", "r", " ", "w", "a", "t", "c", "h", "i", "n", "g">>,
       <<"t", "h", "a", "n", "k", "s", " ", "f", "o", "r", " ", "w", "a", "t", "c", "h", "i", "n", "g">>,
       <<"p", "l", "e", "a", "s", "e", " ", "s", "u", "b", "s", "c", "r", "i", "b", "e">>,
       <<"s", "u", "b", "s", "c", "r", "i", "b", "e">>,
       <<"b", "y", "e">>,
       <<"b", "y", "e", ".">>,
       <<"y", "o", "u">>,
       <<"y", "o", "u", ".">>,
       <<"U+266A">>,
       <<"[", "m", "u", "s", "i", "c", "]">>,
       <<"[", "a", "p", "p", "l", "a", "u", "s", "e", "]">>,
       <<".">>,
       <<".", ".">>,
       <<".", ".", ".">>,
       <<>> >>

\* The texts the speech model is taken to produce.
Texts ==
    { <<>>,
      <<"Y", "o", "u">>,
      <<"o", "k">>,
      <<"E", "x", "e", "c", "u", "t", "e", " ", "l", "s">>,
      <<"h", "e", "l", "l", "o", " ", "t", "h", "e", "r", "e", " ", "f", "r", "i", "e", "n", "d">> }

\* ------------------------------------------------------------- AudioData
\* An AudioData is its sample array: a tuple of amplitudes in units of 0.001.
\* sample_rate and channels are those of the one recorder.
SampleRate == 4          \* samples per second of the model's recorder
NoDevice == -1

Abs(x) == IF x < 0 THEN -x ELSE x

RECURSIVE SumSq(_)
SumSq(a) == IF a = <<>> THEN 0 ELSE Head(a) * Head(a) + SumSq(Tail(a))

\* calculate_peak_amplitude
RECURSIVE Peak(_)
Peak(a) ==
    IF a = <<>> THEN 0
    ELSE LET p == Peak(Tail(a)) IN IF Abs(Head(a)) > p THEN Abs(Head(a)) ELSE p

\* calculate_rms() < threshold and calculate_rms() > threshold, compared on
\* the squares: rms^2 = SumSq / Len, and rms = 0.0 for an empty array
RmsBelow(a, threshold) ==
    IF a = <<>> THEN 0 < threshold
    ELSE SumSq(a) < threshold * threshold * Len(a)

RmsAbove(a, threshold) ==
    IF a = <<>> THEN 0 > threshold
    ELSE SumSq(a) > threshold * threshold * Len(a)

\* is_silent
IsSilent(a, threshold) == RmsBelow(a, threshold)

\* is_too_short / is_too_long: duration_seconds = len / sample_rate against
\* a duration given in half seconds
IsTooShort_Inclusive(a, min_duration) == 2 * Len(a) <= min_duration * SampleRate

IsTooShort(a, min_duration) == 2 * Len(a) < min_duration * SampleRate

IsTooLong(a, max_duration) == 2 * Len(a) > max_duration * SampleRate

\* x * num / den on amplitudes, rounding towards zero
Scale(x, num, den) ==
    IF x < 0 THEN -((-x * num) \div den) ELSE (x * num) \div den

\* AudioData.normalize
Normalize(a, target_peak) ==
    LET peak == Peak(a)
    IN  IF peak > 0 THEN [i \in 1..Len(a) |-> Scale(a[i], target_peak, peak)] ELSE a

\* data[i:j] with 0-based bounds
Slice(a, i, j) ==
    LET lo == IF i < 0 THEN 0 ELSE i
        hi == IF j > Len(a) THEN Len(a) ELSE j
    IN  IF lo >= hi THEN <<>> ELSE SubSeq(a, lo + 1, hi)

\* -------------------------------------------------------- AudioProcessor
TargetPeak == 900        \* normalize_audio(target_peak=0.9)
TrimThreshold == 1       \* trim_silence(threshold=0.001)
TrimWindow == 2          \* int(min_silence_duration * sample_rate), scaled
GateThreshold == 1       \* apply_noise_gate(threshold=0.001)
GateWindow == 2          \* int(0.01 * sample_rate), scaled
GateRelease == 20        \* int(release_time * sample_rate), scaled

\* for i in range(i, limit, step): the first i whose window is loud, else -1
RECURSIVE FirstLoud(_, _, _, _, _, _)
FirstLoud(a, i, limit, step, window_size, threshold) ==
    IF i >= limit THEN -1
    ELSE IF RmsAbove(Slice(a, i, i + window_size), threshold) THEN i
    ELSE FirstLoud(a, i + step, limit, step, window_size, threshold)

\* for i in range(i, 0, -step): the first i whose window is loud, else -1
RECURSIVE LastLoud(_, _, _, _, _)
LastLoud(a, i, step, window_size, threshold) ==
    IF i <= 0 THEN -1
    ELSE IF RmsAbove(Slice(a, i, i + window_size), threshold) THEN i
    ELSE LastLoud(a, i - step, step, window_size, threshold)

\* AudioProcessor.trim_silence (window_size >= 2).  The forward stride is
\* window_size // 2, the backward stride -window_size // 2 = -ceil(w / 2).
TrimSilence(a, threshold, window_size) ==
    LET first == FirstLoud(a, 0, Len(a) - window_size, window_size \div 2,
                           window_size, threshold)
        last == LastLoud(a, Len(a) - window_size, (window_size + 1) \div 2,
                         window_size, threshold)
        start_idx == IF first = -1 THEN 0 ELSE first
        end_idx == IF last = -1 THEN Len(a) ELSE last + window_size
    IN  IF start_idx >= end_idx THEN a ELSE Slice(a, start_idx, end_idx)

\* np.linspace(1.0, 0.0, n)[k] applied to x
Fade(x, k, n) == IF n = 1 THEN x ELSE Scale(x, n - 1 - k, n - 1)

\* one window of the gate, starting at 0-based i
GateWindowAt(a, i, window_size, release_samples, threshold) ==
    LET fade_length == IF release_samples < window_size
                       THEN release_samples ELSE window_size
    IN  IF RmsBelow(Slice(a, i, i + window_size), threshold)
        THEN [k \in 1..Len(a) |->
                IF k - 1 >= i /\ k - 1 < i + fade_length
                THEN Fade(a[k], k - 1 - i, fade_length)
                ELSE IF k - 1 >= i + fade_length /\ k - 1 < i + window_size
                THEN 0 ELSE a[k]]
        ELSE a

\* for i in range(i, len(data) - window_size, window_size)
RECURSIVE GateFrom(_, _, _, _, _)
GateFrom(a, i, window_size, release_samples, threshold) ==
    IF i >= Len(a) - window_size THEN a
    ELSE GateFrom(GateWindowAt(a, i, window_size, release_samples, threshold),
                  i + window_size, window_size, release_samples, threshold)

\* AudioProcessor.apply_noise_gate
ApplyNoiseGate(a, threshold, window_size, release_samples) ==
    GateFrom(a, 0, window_size, release_samples, threshold)

\* ------------------------------------------------ TranscriptionValidator
MinDuration == 1         \* min_duration, in half seconds (0.5 s)
MaxDuration == 2         \* max_duration, in half seconds (scaled)
SilenceThreshold == 1    \* silence_threshold = 0.001
PeakThreshold == 10      \* peak < 0.01
MinTextLength == 1       \* min_text_length
MinRmsForShortText == 10 \* min_rms_for_short_text = 0.01
ShortTextLength == 15     \* len(text) <= 15
HallucinationRms == 10   \* audio_rms < 0.01

\* A validator result is <<is_valid, error_message>>; the numbers that the
\* messages format are left out.
ValidateAudio_SilenceFirst(a) ==
    IF IsSilent(a, SilenceThreshold) THEN <<FALSE, "Audio is too quiet">>
    ELSE IF IsTooShort(a, MinDuration) THEN <<FALSE, "Audio too short">>
    ELSE IF IsTooLong(a, MaxDuration) THEN <<FALSE, "Audio too long">>
    ELSE IF Peak(a) < PeakThreshold THEN <<FALSE, "Audio volume too low">>
    ELSE <<TRUE, None>>

ValidateAudio(a) ==
    IF IsTooShort(a, MinDuration) THEN <<FALSE, "Audio too short">>
    ELSE IF IsTooLong(a, MaxDuration) THEN <<FALSE, "Audio too long">>
    ELSE IF IsSilent(a, SilenceThreshold) THEN <<FALSE, "Audio is too quiet">>
    ELSE IF Peak(a) < PeakThreshold THEN <<FALSE, "Audio volume too low">>
    ELSE <<TRUE, None>>

\* A Transcription is [text, duration, audio_rms]; audio_rms is <<>> for None
\* and otherwise <<the audio the RMS was taken of>>.
Transcription(text, duration, audio_rms) ==
    [text |-> text, duration |-> duration, audio_rms |-> audio_rms]

\* x in list
InList(t, list) == t \in {list[i] : i \in 1..Len(list)}

\* Transcription.is_likely_hallucination; `self.audio_rms and ...` is false
\* for None and for 0.0
IsLikelyHallucination_CaseSensitive(tr) ==
    \/ InList(Strip(tr.text), Hallucinations)
    \/ /\ Len(tr.text) <= ShortTextLength
       /\ tr.audio_rms # <<>>
       /\ SumSq(tr.audio_rms[1]) > 0
       /\ RmsBelow(tr.audio_rms[1], HallucinationRms)

IsLikelyHallucination(tr) ==
    \/ InList(Strip(Lower(tr.text)), Hallucinations)
    \/ /\ Len(tr.text) <= ShortTextLength
       /\ tr.audio_rms # <<>>
       /\ SumSq(tr.audio_rms[1]) > 0
       /\ RmsBelow(tr.audio_rms[1], HallucinationRms)

\* TranscriptionValidator.validate_transcription with the audio given
ValidateTranscription(tr, a) ==
    IF tr.text = <<>> \/ Strip(tr.text) = <<>> THEN <<FALSE, "Empty transcription">>
    ELSE IF Len(Strip(tr.text)) < MinTextLength THEN <<FALSE, "Text too short">>
    ELSE IF IsLikelyHallucination(tr) THEN <<FALSE, "Likely hallucination">>
    ELSE IF Len(tr.text) <= ShortTextLength /\ RmsBelow(a, MinRmsForShortText)
         THEN <<FALSE, "Short text with low audio energy (possible hallucination)">>
    ELSE <<TRUE, None>>

\* validate_transcription(transcription, audio_data=None): audio_data is <<>>
\* for None and <<a>> otherwise
ValidateTranscriptionOf(tr, audio_data) ==
    IF audio_data # <<>> THEN ValidateTranscription(tr, audio_data[1])
    ELSE IF tr.text = <<>> \/ Strip(tr.text) = <<>> THEN <<FALSE, "Empty transcription">>
    ELSE IF Len(Strip(tr.text)) < MinTextLength THEN <<FALSE, "Text too short">>
    ELSE IF IsLikelyHallucination(tr) THEN <<FALSE, "Likely hallucination">>
    ELSE <<TRUE, None>>

\* ---------------------------------------------------------- WhisperAdapter
\* transcribe: the model's text is an input; the entity carries the RMS of
\* the audio it was given
Transcribe(a, text) == Transcription(Strip(text), Len(a), <<a>>)

\* ------------------------------------------------------- returned values
\* One shape for every call.  session is the id of the session in the
\* response (NoSession for None); transcription and voice_command are <<>>
\* for None and <<value>> otherwise; raised is the message of the exception
\* that reached the caller (None if the call returned).
Returned(op, success, error_message, session) ==
    [op |-> op, success |-> success, error_message |-> error_message,
     session |-> session, transcription |-> <<>>, voice_command |-> <<>>,
     audio_duration |-> -1, raised |-> None]

Reasons == {"Audio is too quiet", "boom"}

\* -------------------------------------------------- SoundDeviceRecorder
\* rec = [recording, queue, stream, current_device_id]; stream is "none"
\* (self.stream is None), "open" (created, not started), "running" or
\* "stopped".  A recorder method returns the recorder after the call, the
\* message of the exception it raised (None if it returned) and, for
\* stop_recording, the AudioData.
AvailableDevices == {1}

\* the blocks the input stream delivers
Blocks == { <<0, 0>>, <<5, 5>>, <<10, 0>>, <<20, 20>> }

RECURSIVE Concat(_)
Concat(chunks) == IF chunks = <<>> THEN <<>> ELSE Head(chunks) \o Concat(Tail(chunks))

\* start_recording; fault "open" makes sd.InputStream(...) raise, fault "start"
\* makes stream.start() raise
RecorderStart_ClearsFirst(r, device_id, fault) ==
    IF r.recording
    THEN [rec |-> [r EXCEPT !.queue = <<>>], raised |-> "Already recording"]
    ELSE [rec |-> [r EXCEPT !.queue = <<>>, !.stream = "running", !.recording = TRUE],
          raised |-> None]

RecorderStart_ArmsFirst(r, device_id, fault) ==
    IF r.recording
    THEN [rec |-> r, raised |-> "Already recording"]
    ELSE LET r1 == [r EXCEPT !.queue = <<>>, !.stream = "none", !.recording = TRUE]
         IN  IF fault = "open"
             THEN [rec |-> r1, raised |-> "Error opening InputStream"]
             ELSE IF fault = "start"
             THEN [rec |-> [r1 EXCEPT !.stream = "open"],
                   raised |-> "Error starting stream"]
             ELSE [rec |-> [r1 EXCEPT !.stream = "running"], raised |-> None]

RecorderStart(r, device_id, fault) ==
    IF r.recording
    THEN [rec |-> r, raised |-> "Already recording"]
    ELSE LET r1 == [r EXCEPT !.queue = <<>>, !.stream = "none"]
         IN  IF fault = "open"
             THEN [rec |-> r1, raised |-> "Error opening InputStream"]
             ELSE IF fault = "start"
             THEN [rec |-> [r1 EXCEPT !.stream = "open"],
                   raised |-> "Error starting stream"]
             ELSE [rec |-> [r1 EXCEPT !.stream = "running", !.recording = TRUE],
                   raised |-> None]

\* stop_recording; fault "stop" makes stream.stop() raise
RecorderStop(r, fault) ==
    IF ~r.recording
    THEN [rec |-> r, raised |-> "Not recording", audio |-> <<>>]
    ELSE LET r1 == [r EXCEPT !.recording = FALSE]
         IN  IF r1.stream # "none" /\ fault = "stop"
             THEN [rec |-> r1, raised |-> "Error stopping stream", audio |-> <<>>]
             ELSE [rec |-> [r1 EXCEPT !.queue = <<>>,
                               !.stream = IF r1.stream = "none" THEN "none" ELSE "stopped"],
                   raised |-> None,
                   audio |-> Concat(r1.queue)]

\* _audio_callback: if self.recording
CallbackTest_Always(r) == TRUE

CallbackTest(r) == r.recording

\* self.audio_queue.put(block)
QueuePut_Prepends(r, block) == [r EXCEPT !.queue = <<block>> \o r.queue]

QueuePut(r, block) == [r EXCEPT !.queue = Append(r.queue, block)]

\* _audio_callback
RecorderCallback(r, block) ==
    IF CallbackTest(r) THEN QueuePut(r, block) ELSE r

\* get_current_device
GetCurrentDevice(r) == r.current_device_id

\* ------------------------------------------------------------ responses
\* A collaborator call: its name, how it ended ("ok", "rejected", "raised"),
\* the message it gave, the audio it was passed and the audio it returned
\* (<<>> for none, <<a>> otherwise).
CallOn(name, out, msg, arg, res) ==
    [call |-> name, out |-> out, msg |-> msg, arg |-> arg, res |-> res]

Call(name, out, msg) == CallOn(name, out, msg, <<>>, <<>>)

\* ----------------------------------------------- ManageRecordingUseCase
\* A use-case call returns [sessions, rec, mgr, ret, calls]: the state its
\* collaborators are left in and the response.
ManageStartResult_Unchecked(ss, r, m, device_id, fault, now) ==
    LET id == Len(ss) + 1
        started == RecorderStart(r, device_id, fault)
        sst == SessionStart(SessionCreate(id, device_id), now)
    IN  IF started.raised # None
        THEN [sessions |-> ss, rec |-> started.rec, mgr |-> m,
              ret |-> Returned("start_recording", FALSE,
                               "Failed to start recording: " \o started.raised, NoSession),
              calls |-> <<Call("start_recording", "raised", started.raised)>>]
        ELSE [sessions |-> Append(ss, sst.s), rec |-> started.rec,
              mgr |-> [m EXCEPT !.current_session = id],
              ret |-> Returned("start_recording", TRUE, None, id),
              calls |-> <<Call("start_recording", "ok", None)>>]

ManageStartResult(ss, r, m, device_id, fault, now) ==
    IF r.recording
    THEN [sessions |-> ss, rec |-> r, mgr |-> m,
          ret |-> Returned("start_recording", FALSE, "Already recording", NoSession),
          calls |-> <<Call("is_recording", "ok", None)>>]
    ELSE IF device_id # NoDevice /\ device_id \notin AvailableDevices
    THEN [sessions |-> ss, rec |-> r, mgr |-> m,
          ret |-> Returned("start_recording", FALSE, "Device not found", NoSession),
          calls |-> <<Call("is_recording", "ok", None),
                      Call("get_available_devices", "ok", None)>>]
    ELSE LET dev == IF device_id # NoDevice THEN device_id ELSE GetCurrentDevice(r)
             id == Len(ss) + 1
             session == SessionCreate(id, dev)
             started == RecorderStart(r, dev, fault)
             sst == SessionStart(session, now)
             lookup == IF device_id # NoDevice
                       THEN Call("get_available_devices", "ok", None)
                       ELSE Call("get_current_device", "ok", None)
         IN  IF started.raised # None
             THEN [sessions |-> ss, rec |-> started.rec, mgr |-> m,
                   ret |-> Returned("start_recording", FALSE,
                                    "Failed to start recording: " \o started.raised,
                                    NoSession),
                   calls |-> <<Call("is_recording", "ok", None), lookup,
                               Call("start_recording", "raised", started.raised)>>]
             ELSE IF sst.raised # None
             THEN [sessions |-> ss, rec |-> started.rec, mgr |-> m,
                   ret |-> Returned("start_recording", FALSE,
                                    "Failed to start recording: " \o sst.raised,
                                    NoSession),
                   calls |-> <<Call("is_recording", "ok", None), lookup,
                               Call("start_recording", "ok", None)>>]
             ELSE [sessions |-> Append(ss, sst.s), rec |-> started.rec,
                   mgr |-> [m EXCEPT !.current_session = id],
                   ret |-> Returned("start_recording", TRUE, None, id),
                   calls |-> <<Call("is_recording", "ok", None), lookup,
                               Call("start_recording", "ok", None)>>]

ManageStopResult_AnyId(ss, r, m, session_id, fault, now) ==
    IF m.current_session = NoSession
    THEN [sessions |-> ss, rec |-> r, mgr |-> m,
          ret |-> Returned("stop_recording", FALSE, "Invalid session ID", NoSession),
          calls |-> <<>>]
    ELSE LET stopped == RecorderStop(r, fault)
         IN  [sessions |-> ss, rec |-> stopped.rec, mgr |-> m,
              ret |-> Returned("stop_recording", stopped.raised = None, stopped.raised,
                               m.current_session),
              calls |-> <<Call("stop_recording", "ok", None)>>]

ManageStopResult(ss, r, m, session_id, fault, now) ==
    IF m.current_session = NoSession \/ ss[m.current_session].id # session_id
    THEN [sessions |-> ss, rec |-> r, mgr |-> m,
          ret |-> Returned("stop_recording", FALSE, "Invalid session ID", NoSession),
          calls |-> <<>>]
    ELSE IF ~r.recording
    THEN [sessions |-> ss, rec |-> r, mgr |-> m,
          ret |-> Returned("stop_recording", FALSE, "Not currently recording", NoSession),
          calls |-> <<Call("is_recording", "ok", None)>>]
    ELSE LET cur == m.current_session
             stopped == RecorderStop(r, fault)
             sst == SessionStop(ss[cur], now)
         IN  IF stopped.raised # None
             THEN [sessions |-> [ss EXCEPT ![cur] = SessionFail(ss[cur], stopped.raised, now).s],
                   rec |-> stopped.rec, mgr |-> m,
                   ret |-> Returned("stop_recording", FALSE,
                                    "Failed to stop recording: " \o stopped.raised,
                                    NoSession),
                   calls |-> <<Call("is_recording", "ok", None),
                               Call("stop_recording", "raised", stopped.raised)>>]
             ELSE IF sst.raised # None
             THEN [sessions |-> [ss EXCEPT ![cur] = SessionFail(ss[cur], sst.raised, now).s],
                   rec |-> stopped.rec, mgr |-> m,
                   ret |-> Returned("stop_recording", FALSE,
                                    "Failed to stop recording: " \o sst.raised,
                                    NoSession),
                   calls |-> <<Call("is_recording", "ok", None),
                               Call("stop_recording", "ok", None)>>]
             ELSE [sessions |-> [ss EXCEPT ![cur] = sst.s],
                   rec |-> stopped.rec, mgr |-> m,
                   ret |-> [Returned("stop_recording", TRUE, None, cur)
                              EXCEPT !.audio_duration = Len(stopped.audio)],
                   calls |-> <<Call("is_recording", "ok", None),
                               Call("stop_recording", "ok", None)>>]

\* ------------------------------------------------ state at construction
RecorderInit ==
    [recording |-> FALSE, queue |-> <<>>, stream |-> "none", current_device_id |-> NoDevice]

\* The recorder's two threads.  main is the place of the control thread
\* ("idle" outside start_recording / stop_recording); cb is <<>> while the
\* callback thread is outside _audio_callback and <<block>> once it has
\* found self.recording true and is about to put the block.  gen counts the
\* streams opened and n the blocks the current stream delivered; put lists
\* the blocks put into the current queue object; audio is <<>> or <<a>>, the
\* AudioData the last stop_recording returned.
ThreadsInit ==
    [main |-> "idle", device |-> NoDevice, cb |-> <<>>, gen |-> 0, n |-> 0,
     put |-> <<>>, audio |-> <<>>]

\* run_modular_cli: current_session = None
CliInit == [current_session |-> NoSession]

\* the keys of the keyboard
Keys == {"right ctrl", "f13"}

\* time.time() of the first tick: seconds since 1970, far above any
\* debounce time
Epoch == 3

\* time.time(), in ticks of half a second
Time(c) == Epoch + c

\* KeyboardSimulator.__init__: debounce_time 0.5 s (one tick) and no release
\* times (last_release_times.get(key, 0) is 0 for every key), no key
\* registered.  seen is the time of the last release event of each key since
\* it was registered, ignored or not; invoked is the time of the last one
\* for which on_release was called.
DefaultDebounceTime == 1

KeyboardInit ==
    [debounce_time |-> DefaultDebounceTime,
     last_release_times |-> [k \in Keys |-> 0],
     registered |-> {},
     seen |-> [k \in Keys |-> NoTime],
     invoked |-> [k \in Keys |-> NoTime]]

\* SpeechToText.__init__
LegacyInit ==
    [recording |-> FALSE, queue |-> <<>>, last_release_time |-> 0,
     recording_start_time |-> 0, monitor |-> "sleep", processed |-> <<>>]

\* WhisperAdapter.__init__: no model; files are the temporary files that
\* exist, made counts the names tempfile has handed out, temp_path is the one
\* of the last transcribe (0 before any)
WhisperInit == [model |-> FALSE, files |-> {}, made |-> 0, temp_path |-> 0]

\* The desktop and the dispatchers: the handles of the windows that exist,
\* the foreground window (NoWindow for none), AudioWorker.target_window_handle
\* (NoWindow for None), the target the last dispatch was asked for (NoWindow
\* for the current focus) and the keystrokes of the last dispatch.
NoWindow == 0

WindowsInit ==
    [windows |-> {1}, focus |-> 1, target_window_handle |-> NoWindow,
     asked |-> NoWindow, typed |-> <<>>]

\* A call of a validator or parser function: its name, whether it has
\* returned, its arguments (text and audio are <<>> for None or not passed
\* and <<value>> otherwise) and what it returned.
PureCall(fn, text, audio, carried, given) ==
    [fn |-> fn, done |-> FALSE, text |-> text, audio |-> audio,
     carried |-> carried, given |-> given, out |-> <<>>]

PureInit == PureCall("none", <<>>, <<>>, FALSE, FALSE)

\* --------------------------------------- the entity driven by its methods

InitSession ==
    /\ sessions = <<SessionCreate(1, NoDevice)>>
    /\ clock = 0
    /\ rec = RecorderInit
    /\ mgr = [current_session |-> NoSession]
    /\ ret = Returned("create", TRUE, None, 1)
    /\ calls = <<>>
    /\ sent = <<>>
    /\ request = <<>>
    /\ thr = ThreadsInit
    /\ cli = CliInit
    /\ kbd = KeyboardInit
    /\ legacy = LegacyInit
    /\ whisper = WhisperInit
    /\ win = WindowsInit
    /\ pure = PureInit

Tick ==
    /\ clock < MaxClock
    /\ clock' = clock + 1
    /\ UNCHANGED <<sessions, rec, mgr, ret, calls, sent, request, thr, cli, kbd, legacy, whisper, win, pure>>

MethodCall(op, r) ==
    /\ sessions' = [sessions EXCEPT ![1] = r.s]
    /\ ret' = [Returned(op, r.raised = None, None, 1) EXCEPT !.raised = r.raised]
    /\ UNCHANGED <<clock, rec, mgr, calls, sent, request, thr, cli, kbd, legacy, whisper, win, pure>>

CallStart == MethodCall("start", SessionStart(sessions[1], clock))

CallStop == MethodCall("stop", SessionStop(sessions[1], clock))

CallComplete == MethodCall("complete", SessionComplete(sessions[1]))

CallFailWith(reason) == MethodCall("fail", SessionFail(sessions[1], reason, clock))

CallFail == \E reason \in Reasons : CallFailWith(reason)

NextSession == Tick \/ CallStart \/ CallStop \/ CallComplete \/ CallFail

SpecSession == InitSession /\ [][NextSession]_vars

\* ------------------------------------------- RecordAndTranscribeUseCase
\* The collaborator that is made to raise in a cycle (at most one).
Faults == {"none", "stop_recording", "validate_audio", "trim_silence",
           "normalize_audio", "apply_noise_gate", "transcribe",
           "validate_transcription", "parse"}

FaultMsg(fault) == "Error in " \o fault

\* RecordAndTranscribeRequest: the three processing flags
Requests == [trim_silence : BOOLEAN, normalize_audio : BOOLEAN, apply_noise_gate : BOOLEAN]

\* An execute cycle yields [sess, rec, ret, calls]: the session it created,
\* the recorder, the response and the collaborator calls it made.

\* except Exception as e
Caught_Reraises(s, msg, r, cs, now) ==
    [sess |-> s, rec |-> r,
     ret |-> [Returned("execute", FALSE, None, NoSession) EXCEPT !.raised = msg],
     calls |-> cs]

Caught(s, msg, r, cs, now) ==
    [sess |-> SessionFail(s, msg, now).s, rec |-> r,
     ret |-> Returned("execute", FALSE, "Unexpected error: " \o msg, s.id),
     calls |-> cs]

\* if not is_valid (audio)
OnAudioRejected_NoFail(s, error_msg, r, cs, now) ==
    [sess |-> s, rec |-> r,
     ret |-> Returned("execute", FALSE, error_msg, s.id),
     calls |-> cs]

OnAudioRejected(s, error_msg, r, cs, now) ==
    [sess |-> SessionFail(s, error_msg, now).s, rec |-> r,
     ret |-> Returned("execute", FALSE, error_msg, s.id),
     calls |-> cs]

\* if not is_valid (transcription)
OnTranscriptionRejected_KeepsText(s, error_msg, tr, r, cs, now) ==
    [sess |-> SessionFail(s, error_msg, now).s, rec |-> r,
     ret |-> [Returned("execute", TRUE, error_msg, s.id)
                EXCEPT !.transcription = <<tr>>, !.voice_command = <<Parse(tr.text)>>],
     calls |-> cs]

OnTranscriptionRejected(s, error_msg, tr, r, cs, now) ==
    [sess |-> SessionFail(s, error_msg, now).s, rec |-> r,
     ret |-> Returned("execute", FALSE, error_msg, s.id),
     calls |-> cs]

\* one optional processing step: [audio, calls, raised]
ProcessStep(p, requested, name, fault, result) ==
    IF p.raised # None \/ ~requested THEN p
    ELSE IF fault = name
    THEN [p EXCEPT !.calls = Append(p.calls,
                                    CallOn(name, "raised", FaultMsg(name), <<p.audio>>, <<>>)),
                   !.raised = FaultMsg(name)]
    ELSE [p EXCEPT !.calls = Append(p.calls,
                                    CallOn(name, "ok", None, <<p.audio>>, <<result>>)),
                   !.audio = result]

\* trim silence, normalize, noise gate, each if requested
ProcessAudio_NormalizeFirst(a, req, fault) ==
    LET p0 == [audio |-> a, calls |-> <<>>, raised |-> None]
        p1 == ProcessStep(p0, req.normalize_audio, "normalize_audio", fault,
                          Normalize(p0.audio, TargetPeak))
        p2 == ProcessStep(p1, req.trim_silence, "trim_silence", fault,
                          TrimSilence(p1.audio, TrimThreshold, TrimWindow))
        p3 == ProcessStep(p2, req.apply_noise_gate, "apply_noise_gate", fault,
                          ApplyNoiseGate(p2.audio, GateThreshold, GateWindow, GateRelease))
    IN  p3

ProcessAudio(a, req, fault) ==
    LET p0 == [audio |-> a, calls |-> <<>>, raised |-> None]
        p1 == ProcessStep(p0, req.trim_silence, "trim_silence", fault,
                          TrimSilence(p0.audio, TrimThreshold, TrimWindow))
        p2 == ProcessStep(p1, req.normalize_audio, "normalize_audio", fault,
                          Normalize(p1.audio, TargetPeak))
        p3 == ProcessStep(p2, req.apply_noise_gate, "apply_noise_gate", fault,
                          ApplyNoiseGate(p2.audio, GateThreshold, GateWindow, GateRelease))
    IN  p3

\* parse, complete, respond
ExecParse(s, tr, r, cs, fault, now) ==
    IF fault = "parse"
    THEN Caught(s, FaultMsg("parse"), r,
                Append(cs, Call("parse", "raised", FaultMsg("parse"))), now)
    ELSE LET voice_command == Parse(tr.text)
             cs1 == Append(cs, Call("parse", "ok", None))
             done == SessionComplete(s)
         IN  IF done.raised # None
             THEN Caught(s, done.raised, r, cs1, now)
             ELSE [sess |-> done.s, rec |-> r,
                   ret |-> [Returned("execute", TRUE, None, s.id)
                              EXCEPT !.transcription = <<tr>>,
                                     !.voice_command = <<voice_command>>],
                   calls |-> cs1]

\* transcribe and validate the transcription
ExecTranscribe(s, a, r, cs, fault, text, now) ==
    IF fault = "transcribe"
    THEN Caught(s, FaultMsg("transcribe"), r,
                Append(cs, CallOn("transcribe", "raised", FaultMsg("transcribe"),
                                  <<a>>, <<>>)), now)
    ELSE LET tr == Transcribe(a, text)
             cs1 == Append(cs, CallOn("transcribe", "ok", None, <<a>>, <<>>))
             v == ValidateTranscription(tr, a)
         IN  IF fault = "validate_transcription"
             THEN Caught(s, FaultMsg("validate_transcription"), r,
                         Append(cs1, Call("validate_transcription", "raised",
                                          FaultMsg("validate_transcription"))), now)
             ELSE IF ~v[1]
             THEN OnTranscriptionRejected(s, v[2], tr, r,
                         Append(cs1, Call("validate_transcription", "rejected", v[2])), now)
             ELSE ExecParse(s, tr, r,
                         Append(cs1, Call("validate_transcription", "ok", None)), fault, now)

\* validate the audio and process it
ExecValidate(s, a, r, cs, req, fault, text, now) ==
    IF fault = "validate_audio"
    THEN Caught(s, FaultMsg("validate_audio"), r,
                Append(cs, Call("validate_audio", "raised", FaultMsg("validate_audio"))), now)
    ELSE LET v == ValidateAudio(a)
             p == ProcessAudio(a, req, fault)
         IN  IF ~v[1]
             THEN OnAudioRejected(s, v[2], r,
                                  Append(cs, Call("validate_audio", "rejected", v[2])), now)
             ELSE IF p.raised # None
             THEN Caught(s, p.raised, r,
                         Append(cs, Call("validate_audio", "ok", None)) \o p.calls, now)
             ELSE ExecTranscribe(s, p.audio, r,
                         Append(cs, Call("validate_audio", "ok", None)) \o p.calls,
                         fault, text, now)

\* RecordAndTranscribeUseCase.execute
ExecuteResult(id, r, req, fault, text, now) ==
    LET created == SessionCreate(id, NoDevice)
        started == SessionStart(created, now)
        c1 == <<Call("is_recording", "ok", None)>>
        stopped == RecorderStop(r, IF fault = "stop_recording" THEN "stop" ELSE "none")
        sst == SessionStop(started.s, now)
    IN  IF started.raised # None
        THEN Caught(started.s, started.raised, r, <<>>, now)
        ELSE IF ~r.recording
        THEN [sess |-> started.s, rec |-> r,
              ret |-> Returned("execute", FALSE, "Recording not started", id),
              calls |-> c1]
        ELSE IF stopped.raised # None
        THEN Caught(started.s, stopped.raised, stopped.rec,
                    Append(c1, Call("stop_recording", "raised", stopped.raised)), now)
        ELSE IF sst.raised # None
        THEN Caught(started.s, sst.raised, stopped.rec,
                    Append(c1, Call("stop_recording", "ok", None)), now)
        ELSE ExecValidate(sst.s, stopped.audio, stopped.rec,
                          Append(c1, CallOn("stop_recording", "ok", None,
                                            <<>>, <<stopped.audio>>)),
                          req, fault, text, now)

\* ------------------------------------------------------ the calling layer
\* SendTextUseCase.execute with a current-focus target and a leading space:
\* what is handed to ITextOutput.send_text
SendText(text, execute) ==
    IF text = <<>> \/ Strip(text) = <<>> THEN <<>>
    ELSE << [text |-> <<" ">> \o CleanText(text), execute |-> execute] >>

\* SendTextUseCase.execute_voice_command
ExecuteVoiceCommand(cmd) ==
    IF ~HasText(cmd) THEN <<>> ELSE SendText(cmd.text, ShouldExecute(cmd))

\* what the caller of execute does with the response
DispatchOf(response) ==
    IF response.raised = None /\ response.success /\ response.voice_command # <<>>
    THEN ExecuteVoiceCommand(response.voice_command[1])
    ELSE <<>>

\* --------------------------------------- the use cases on one recorder
Init ==
    /\ sessions = <<>>
    /\ clock = 0
    /\ rec = RecorderInit
    /\ mgr = [current_session |-> NoSession]
    /\ ret = Returned("init", TRUE, None, NoSession)
    /\ calls = <<>>
    /\ sent = <<>>
    /\ request = <<>>
    /\ thr = ThreadsInit
    /\ cli = CliInit
    /\ kbd = KeyboardInit
    /\ legacy = LegacyInit
    /\ whisper = WhisperInit
    /\ win = WindowsInit
    /\ pure = PureInit

\* the stream's thread delivers a block
AudioCallback == \E block \in Blocks :
    /\ rec.stream = "running"
    /\ rec.recording
    /\ Len(rec.queue) < MaxBlocks
    /\ rec' = RecorderCallback(rec, block)
    /\ UNCHANGED <<sessions, clock, mgr, ret, calls, sent, request, thr, cli, kbd, legacy, whisper, win, pure>>

\* a use-case call returns: the sessions that the use case and the response
\* do not refer to are dropped
Return(res, dispatched, req) ==
    /\ sessions' = Collect(res.sessions, {res.mgr.current_session, res.ret.session})
    /\ rec' = res.rec
    /\ mgr' = res.mgr
    /\ ret' = res.ret
    /\ calls' = res.calls
    /\ sent' = dispatched
    /\ request' = req
    /\ UNCHANGED <<clock, thr, cli, kbd, legacy, whisper, win, pure>>

ManageStart ==
    /\ Len(sessions) < MaxSessions
    /\ \E res \in {ManageStartResult(sessions, rec, mgr, device_id, fault, clock) :
                      device_id \in {NoDevice, 1, 2}, fault \in {"none", "open", "start"}} :
          Return(res, <<>>, <<>>)

ManageStop ==
    \E res \in {ManageStopResult(sessions, rec, mgr, session_id, fault, clock) :
                   session_id \in 0..MaxSessions, fault \in {"none", "stop"}} :
        Return(res, <<>>, <<>>)

\* execute, and the caller handing an accepted command to the dispatcher
Execute ==
    /\ Len(sessions) < MaxSessions
    /\ \E req \in Requests :
       \E res \in {ExecuteResult(Len(sessions) + 1, rec, req, fault, text, clock) :
                      fault \in Faults, text \in Texts} :
          Return([sessions |-> Append(sessions, res.sess), rec |-> res.rec,
                  mgr |-> mgr, ret |-> res.ret, calls |-> res.calls],
                 DispatchOf(res.ret), <<req>>)

Next == AudioCallback \/ ManageStart \/ ManageStop \/ Execute

Spec == Init /\ [][Next]_vars

\* ------------------------------------------------------ KeyboardSimulator
\* on_release_handler: the debounce test of a release event of key at time now
DebouncePasses_NoDebounce(k, key, now) == TRUE

DebouncePasses(k, key, now) == now - k.last_release_times[key] >= k.debounce_time

\* on_release_handler: the simulator after a release event of key at time now
ReleaseEvent(k, key, now) ==
    [k EXCEPT !.seen[key] = now,
              !.last_release_times[key] = IF DebouncePasses(k, key, now) THEN now ELSE @,
              !.invoked[key] = IF DebouncePasses(k, key, now) THEN now ELSE @]

\* register_hotkey
RegisterHotkey(k, key) == [k EXCEPT !.registered = @ \cup {key}]

\* unregister_hotkey: the release time of the key is forgotten
UnregisterHotkey(k, key) ==
    IF key \in k.registered
    THEN [k EXCEPT !.registered = @ \ {key},
                   !.last_release_times[key] = 0,
                   !.seen[key] = NoTime,
                   !.invoked[key] = NoTime]
    ELSE k

\* set_debounce_time
SetDebounce(k, seconds) == [k EXCEPT !.debounce_time = IF seconds > 0 THEN seconds ELSE 0]

\* -------------------------------------------------------- run_modular_cli
\* the names bound where on_hotkey_press and on_hotkey_release are defined
CliNames ==
    {"IAudioRecorder", "ITranscriber", "ITextOutput", "IHotkeyHandler",
     "ManageRecordingUseCase", "StartRecordingRequest",
     "RecordAndTranscribeUseCase", "RecordAndTranscribeRequest",
     "SendTextUseCase", "SendTextRequest", "WindowTarget", "AudioFeedback"}

NameError(name) == "name '" \o name \o "' is not defined"

\* config.hotkey.record_key
RecordKey == "right ctrl"

\* RecordAndTranscribeRequest(session_id, language): the processing flags
\* keep their defaults
DefaultRequest ==
    [trim_silence |-> TRUE, normalize_audio |-> TRUE, apply_noise_gate |-> FALSE]

\* A handler yields [sessions, rec, mgr, cli, ret, calls, sent, request].

\* on_hotkey_press
OnHotkeyPress(ss, r, m, c, fault, now) ==
    LET res == ManageStartResult(ss, r, m, NoDevice, fault, now)
    IN  [sessions |-> res.sessions, rec |-> res.rec, mgr |-> res.mgr,
         cli |-> IF res.ret.success
                 THEN [c EXCEPT !.current_session = res.ret.session] ELSE c,
         ret |-> [res.ret EXCEPT !.op = "on_hotkey_press"],
         calls |-> res.calls, sent |-> <<>>, request |-> <<>>]

\* on_hotkey_release
OnHotkeyRelease(ss, r, m, c, stop_fault, fault, text, now) ==
    LET unchanged == [sessions |-> ss, rec |-> r, mgr |-> m, cli |-> c,
                      ret |-> Returned("on_hotkey_release", FALSE, None, NoSession),
                      calls |-> <<>>, sent |-> <<>>, request |-> <<>>]
    IN  IF c.current_session = NoSession
        THEN unchanged
        ELSE IF "StopRecordingRequest" \notin CliNames
        THEN [unchanged EXCEPT !.ret.raised = NameError("StopRecordingRequest")]
        ELSE LET stop == ManageStopResult(ss, r, m, ss[c.current_session].id,
                                          stop_fault, now)
                 id == Len(stop.sessions) + 1
                 exec == ExecuteResult(id, stop.rec, DefaultRequest, fault, text, now)
             IN  IF ~stop.ret.success
                 THEN [sessions |-> stop.sessions, rec |-> stop.rec, mgr |-> stop.mgr,
                       cli |-> c,
                       ret |-> [stop.ret EXCEPT !.op = "on_hotkey_release"],
                       calls |-> stop.calls, sent |-> <<>>, request |-> <<>>]
                 ELSE [sessions |-> Append(stop.sessions, exec.sess),
                       rec |-> exec.rec, mgr |-> stop.mgr,
                       cli |-> [c EXCEPT !.current_session = NoSession],
                       ret |-> [exec.ret EXCEPT !.op = "on_hotkey_release"],
                       calls |-> stop.calls \o exec.calls,
                       sent |-> DispatchOf(exec.ret),
                       request |-> <<DefaultRequest>>]

InitCli ==
    /\ sessions = <<>>
    /\ clock = 0
    /\ rec = RecorderInit
    /\ mgr = [current_session |-> NoSession]
    /\ ret = Returned("init", TRUE, None, NoSession)
    /\ calls = <<>>
    /\ sent = <<>>
    /\ request = <<>>
    /\ thr = ThreadsInit
    /\ cli = CliInit
    /\ kbd = RegisterHotkey(KeyboardInit, RecordKey)
    /\ legacy = LegacyInit
    /\ whisper = WhisperInit
    /\ win = WindowsInit
    /\ pure = PureInit

\* a handler returns to the keyboard hook
Handled(res) ==
    /\ sessions' = Collect(res.sessions,
                           {res.mgr.current_session, res.cli.current_session,
                            res.ret.session})
    /\ rec' = res.rec
    /\ mgr' = res.mgr
    /\ cli' = res.cli
    /\ ret' = res.ret
    /\ calls' = res.calls
    /\ sent' = res.sent
    /\ request' = res.request
    /\ UNCHANGED <<clock, thr, legacy, whisper, win, pure>>

\* the record key goes down: on_press_handler
HotkeyPress ==
    /\ Len(sessions) < MaxSessions
    /\ \E res \in {OnHotkeyPress(sessions, rec, mgr, cli, fault, clock) :
                      fault \in {"none", "open", "start"}} :
          Handled(res)
    /\ UNCHANGED kbd

\* a release event of the record key that passes the debounce test
HotkeyReleaseAccepted ==
    /\ Len(sessions) < MaxSessions
    /\ DebouncePasses(kbd, RecordKey, Time(clock))
    /\ kbd' = ReleaseEvent(kbd, RecordKey, Time(clock))
    /\ \E res \in {OnHotkeyRelease(sessions, rec, mgr, cli, stop_fault, fault, text, clock) :
                      stop_fault \in {"none", "stop"}, fault \in Faults, text \in Texts} :
          Handled(res)

\* a release event of the record key that the debounce test drops
HotkeyReleaseIgnored ==
    /\ ~DebouncePasses(kbd, RecordKey, Time(clock))
    /\ kbd' = ReleaseEvent(kbd, RecordKey, Time(clock))
    /\ ret' = Returned("on_release_handler", FALSE, None, NoSession)
    /\ calls' = <<>>
    /\ sent' = <<>>
    /\ request' = <<>>
    /\ UNCHANGED <<sessions, clock, rec, mgr, cli, thr, legacy, whisper, win, pure>>

\* on_release_handler
HotkeyRelease == HotkeyReleaseAccepted \/ HotkeyReleaseIgnored

NextCli == Tick \/ AudioCallback \/ HotkeyPress \/ HotkeyRelease

SpecCli == InitCli /\ [][NextCli]_vars

\* ------------------------------ SoundDeviceRecorder, statement by statement
\* The control thread runs start_recording and stop_recording (under
\* self._lock); the stream's thread runs _audio_callback, which takes no
\* lock.  A block the stream delivers is <<gen, n>>: the n-th block of the
\* gen-th stream.
InitRecorder ==
    /\ sessions = <<>>
    /\ clock = 0
    /\ rec = RecorderInit
    /\ mgr = [current_session |-> NoSession]
    /\ ret = Returned("init", TRUE, None, NoSession)
    /\ calls = <<>>
    /\ sent = <<>>
    /\ request = <<>>
    /\ thr = ThreadsInit
    /\ cli = CliInit
    /\ kbd = KeyboardInit
    /\ legacy = LegacyInit
    /\ whisper = WhisperInit
    /\ win = WindowsInit
    /\ pure = PureInit

RecorderStep(r, t, rt) ==
    /\ rec' = r
    /\ thr' = t
    /\ ret' = rt
    /\ UNCHANGED <<sessions, clock, mgr, calls, sent, request, cli, kbd, legacy, whisper, win, pure>>

Raised(op, msg) == [Returned(op, FALSE, None, NoSession) EXCEPT !.raised = msg]

\* start_recording is called: the guard
CallStartRecording == \E device_id \in {NoDevice} \cup AvailableDevices :
    /\ thr.main = "idle"
    /\ IF rec.recording
       THEN LET res == RecorderStart(rec, device_id, "none")
            IN  RecorderStep(res.rec, thr, Raised("recorder.start_recording", res.raised))
       ELSE RecorderStep(rec, [thr EXCEPT !.main = "clear", !.device = device_id], ret)

\* self.audio_queue = queue.Queue()
StartClear ==
    /\ thr.main = "clear"
    /\ RecorderStep([rec EXCEPT !.queue = <<>>],
                    [thr EXCEPT !.main = "close_old", !.put = <<>>], ret)

\* if self.stream: stop it, close it, forget it.  stop() returns once the
\* callback in flight has ended, or raises and leaves the stream as it was.
StartCloseOld ==
    /\ thr.main = "close_old"
    /\ \/ /\ rec.stream = "running" => thr.cb = <<>>
          /\ RecorderStep([rec EXCEPT !.stream = "none"],
                          [thr EXCEPT !.main = "open"], ret)
       \/ /\ rec.stream = "running"
          /\ RecorderStep(rec, [thr EXCEPT !.main = "idle"],
                          Raised("recorder.start_recording", "Error stopping stream"))

\* self.stream = sd.InputStream(...)
StartOpen ==
    /\ thr.main = "open"
    /\ thr.gen < MaxSessions
    /\ \/ RecorderStep([rec EXCEPT !.stream = "open"],
                       [thr EXCEPT !.main = "start", !.gen = @ + 1, !.n = 0], ret)
       \/ RecorderStep(rec, [thr EXCEPT !.main = "idle"],
                       Raised("recorder.start_recording", "Error opening InputStream"))

\* self.stream.start()
StartStream ==
    /\ thr.main = "start"
    /\ \/ RecorderStep([rec EXCEPT !.stream = "running"],
                       [thr EXCEPT !.main = "arm"], ret)
       \/ RecorderStep(rec, [thr EXCEPT !.main = "idle"],
                       Raised("recorder.start_recording", "Error starting stream"))

\* self.recording = True, and start_recording returns
StartArm ==
    /\ thr.main = "arm"
    /\ RecorderStep([rec EXCEPT !.recording = TRUE], [thr EXCEPT !.main = "idle"],
                    Returned("recorder.start_recording", TRUE, None, NoSession))

\* stop_recording is called: the guard, and self.recording = False
CallStopRecording ==
    /\ thr.main = "idle"
    /\ IF ~rec.recording
       THEN LET res == RecorderStop(rec, "none")
            IN  RecorderStep(res.rec, thr, Raised("recorder.stop_recording", res.raised))
       ELSE RecorderStep([rec EXCEPT !.recording = FALSE],
                         [thr EXCEPT !.main = "stop_stream"], ret)

\* if self.stream: self.stream.stop()
StopStream ==
    /\ thr.main = "stop_stream"
    /\ \/ /\ rec.stream = "running" => thr.cb = <<>>
          /\ RecorderStep([rec EXCEPT !.stream = IF @ = "none" THEN "none" ELSE "stopped"],
                          [thr EXCEPT !.main = "drain"], ret)
       \/ /\ rec.stream # "none"
          /\ RecorderStep(rec, [thr EXCEPT !.main = "idle"],
                          Raised("recorder.stop_recording", "Error stopping stream"))

\* the queue is drained, the chunks are concatenated and returned
\* (np.concatenate may raise)
StopDrain ==
    /\ thr.main = "drain"
    /\ \/ RecorderStep([rec EXCEPT !.queue = <<>>],
                       [thr EXCEPT !.main = "idle", !.audio = <<Concat(rec.queue)>>],
                       Returned("recorder.stop_recording", TRUE, None, NoSession))
       \/ /\ rec.queue # <<>>
          /\ RecorderStep([rec EXCEPT !.queue = <<>>], [thr EXCEPT !.main = "idle"],
                          Raised("recorder.stop_recording", "Error concatenating"))

\* the stream calls _audio_callback with its next block: if self.recording
CallbackEnter ==
    /\ rec.stream = "running"
    /\ thr.cb = <<>>
    /\ thr.n < MaxBlocks
    /\ RecorderStep(rec,
                    [thr EXCEPT !.n = @ + 1,
                                !.cb = IF CallbackTest(rec)
                                       THEN << <<thr.gen, thr.n + 1>> >> ELSE <<>>],
                    ret)

\* self.audio_queue.put(indata.copy())
CallbackPut ==
    /\ thr.cb # <<>>
    /\ RecorderStep(QueuePut(rec, thr.cb[1]),
                    [thr EXCEPT !.cb = <<>>, !.put = Append(@, thr.cb[1])], ret)

NextRecorder ==
    \/ CallStartRecording \/ StartClear \/ StartCloseOld \/ StartOpen
    \/ StartStream \/ StartArm
    \/ CallStopRecording \/ StopStream \/ StopDrain
    \/ CallbackEnter \/ CallbackPut

SpecRecorder == InitRecorder /\ [][NextRecorder]_vars

\* ------------------------------------------------------ KeyboardSimulator
\* the arguments given to set_debounce_time, in ticks
DebounceTimes == {-1, 0, 1, 2}

InitHotkey ==
    /\ sessions = <<>>
    /\ clock = 0
    /\ rec = RecorderInit
    /\ mgr = [current_session |-> NoSession]
    /\ ret = Returned("init", TRUE, None, NoSession)
    /\ calls = <<>>
    /\ sent = <<>>
    /\ request = <<>>
    /\ thr = ThreadsInit
    /\ cli = CliInit
    /\ kbd = KeyboardInit
    /\ legacy = LegacyInit
    /\ whisper = WhisperInit
    /\ win = WindowsInit
    /\ pure = PureInit

\* a method of the simulator returns; success tells whether on_release ran
KeyboardStep(k, op, success) ==
    /\ kbd' = k
    /\ ret' = Returned(op, success, None, NoSession)
    /\ UNCHANGED <<sessions, clock, rec, mgr, calls, sent, request, thr, cli, legacy, whisper, win, pure>>

\* register_hotkey for a key that has no hooks yet
Register(key) ==
    /\ key \notin kbd.registered
    /\ KeyboardStep(RegisterHotkey(kbd, key), "register_hotkey", TRUE)

\* unregister_hotkey
Unregister(key) ==
    KeyboardStep(UnregisterHotkey(kbd, key), "unregister_hotkey", TRUE)

\* on_release_handler: a release event of a hooked key
KeyRelease(key) ==
    /\ key \in kbd.registered
    /\ KeyboardStep(ReleaseEvent(kbd, key, Time(clock)), "on_release_handler",
                    DebouncePasses(kbd, key, Time(clock)))

\* set_debounce_time
SetDebounceTime(seconds) ==
    KeyboardStep(SetDebounce(kbd, seconds), "set_debounce_time", TRUE)

NextHotkey ==
    \/ Tick
    \/ \E key \in Keys : Register(key)
    \/ \E key \in Keys : Unregister(key)
    \/ \E key \in Keys : KeyRelease(key)
    \/ \E seconds \in DebounceTimes : SetDebounceTime(seconds)

SpecHotkey == InitHotkey /\ [][NextHotkey]_vars

\* ---------------------------------------------- SpeechToText (legacy loop)
LegacyMaxRecording == 2     \* max_recording_duration, in ticks
LegacyDebounce == 1         \* debounce_cooldown, in ticks

\* the blocks the legacy input stream delivers
LegacyBlocks == { <<0, 0>>, <<20, 20>> }

\* start_recording
LegacyStart(l, now) ==
    IF now - l.last_release_time < LegacyDebounce THEN l
    ELSE IF ~l.recording
    THEN [l EXCEPT !.recording = TRUE, !.queue = <<>>, !.recording_start_time = now]
    ELSE l

\* stop_recording: processed is the audio handed to process_audio
LegacyStop(l, now) ==
    IF l.recording
    THEN [l EXCEPT !.recording = FALSE, !.last_release_time = now, !.queue = <<>>,
                   !.processed = IF l.queue # <<>> THEN <<Concat(l.queue)>> ELSE @]
    ELSE l

\* audio_callback
LegacyCallback(l, block) ==
    IF l.recording THEN [l EXCEPT !.queue = Append(@, block)] ELSE l

\* audio_monitor: the test made after each sleep
Overdue(l, now) ==
    l.recording /\ l.recording_start_time > 0
        /\ now - l.recording_start_time > LegacyMaxRecording

\* audio_monitor: what the watchdog does once the test has passed
WatchdogStop_FlagOnly(l, now) == [l EXCEPT !.recording = FALSE]

WatchdogStop(l, now) == LegacyStop(l, now)

InitLegacy ==
    /\ sessions = <<>>
    /\ clock = 0
    /\ rec = RecorderInit
    /\ mgr = [current_session |-> NoSession]
    /\ ret = Returned("init", TRUE, None, NoSession)
    /\ calls = <<>>
    /\ sent = <<>>
    /\ request = <<>>
    /\ thr = ThreadsInit
    /\ cli = CliInit
    /\ kbd = KeyboardInit
    /\ legacy = LegacyInit
    /\ whisper = WhisperInit
    /\ win = WindowsInit
    /\ pure = PureInit

LegacyStep(l, op) ==
    /\ legacy' = l
    /\ ret' = Returned(op, TRUE, None, NoSession)
    /\ UNCHANGED <<sessions, clock, rec, mgr, calls, sent, request, thr, cli, kbd, whisper, win, pure>>

\* the hotkey goes down
LegacyPress == LegacyStep(LegacyStart(legacy, Time(clock)), "start_recording")

\* the hotkey goes up
LegacyRelease == LegacyStep(LegacyStop(legacy, Time(clock)), "stop_recording")

\* the input stream delivers a block
LegacyAudio == \E block \in LegacyBlocks :
    /\ Len(legacy.queue) < MaxBlocks
    /\ legacy.recording
    /\ legacy' = LegacyCallback(legacy, block)
    /\ UNCHANGED <<sessions, clock, rec, mgr, ret, calls, sent, request, thr, cli, kbd, whisper, win, pure>>

\* the monitor wakes up and finds the recording overdue
MonitorPoll ==
    /\ legacy.monitor = "sleep"
    /\ Overdue(legacy, Time(clock))
    /\ legacy' = [legacy EXCEPT !.monitor = "fire"]
    /\ UNCHANGED <<sessions, clock, rec, mgr, ret, calls, sent, request, thr, cli, kbd, whisper, win, pure>>

\* the monitor calls stop_recording and goes back to sleep
MonitorStop ==
    /\ legacy.monitor = "fire"
    /\ LegacyStep([WatchdogStop(legacy, Time(clock)) EXCEPT !.monitor = "sleep"],
                  "audio_monitor")

NextLegacy == Tick \/ LegacyPress \/ LegacyRelease \/ LegacyAudio \/ MonitorPoll \/ MonitorStop

\* the monitor thread is scheduled again and again; key events and the clock
\* are not forced
FairSpecLegacy ==
    InitLegacy /\ [][NextLegacy]_vars /\ WF_vars(MonitorPoll) /\ WF_vars(MonitorStop)

\* -------------------------------------------- WhisperAdapter.transcribe
MaxFiles == 2       \* temporary names handed out in a run

\* what is made to raise in a transcribe call (at most one): "tempfile" is
\* NamedTemporaryFile(), "write" is sf.write(), "model" is model.transcribe()
WhisperFaults == {"none", "tempfile", "write", "model"}

\* the buffers handed to transcribe
WhisperAudios == {b \o c : b \in Blocks, c \in Blocks}

\* transcribe: [whisper, raised, transcription]
TranscribeFile(w, a, text, fault) ==
    LET path == w.made + 1
        created == [w EXCEPT !.files = @ \cup {path}, !.made = path, !.temp_path = path]
        unlinked == [created EXCEPT !.files = @ \ {path}]
    IN  IF ~w.model
        THEN [whisper |-> [w EXCEPT !.temp_path = 0],
              raised |-> "Model not loaded. Call load_model() first.",
              transcription |-> <<>>]
        ELSE IF fault = "tempfile"
        THEN [whisper |-> [w EXCEPT !.temp_path = 0],
              raised |-> FaultMsg("tempfile"), transcription |-> <<>>]
        ELSE IF fault = "write"
        THEN [whisper |-> created, raised |-> FaultMsg("write"), transcription |-> <<>>]
        ELSE IF fault = "model"
        THEN [whisper |-> unlinked, raised |-> FaultMsg("model"), transcription |-> <<>>]
        ELSE [whisper |-> unlinked, raised |-> None,
              transcription |-> <<Transcribe(a, text)>>]

InitWhisper ==
    /\ sessions = <<>>
    /\ clock = 0
    /\ rec = RecorderInit
    /\ mgr = [current_session |-> NoSession]
    /\ ret = Returned("init", TRUE, None, NoSession)
    /\ calls = <<>>
    /\ sent = <<>>
    /\ request = <<>>
    /\ thr = ThreadsInit
    /\ cli = CliInit
    /\ kbd = KeyboardInit
    /\ legacy = LegacyInit
    /\ whisper = WhisperInit
    /\ win = WindowsInit
    /\ pure = PureInit

\* load_model
LoadModel ==
    /\ whisper' = [whisper EXCEPT !.model = TRUE]
    /\ ret' = Returned("load_model", TRUE, None, NoSession)
    /\ UNCHANGED <<sessions, clock, rec, mgr, calls, sent, request, thr, cli, kbd,
                   legacy, win, pure>>

\* transcribe returns or raises
TranscribeCall ==
    /\ whisper.made < MaxFiles
    /\ \E res \in {TranscribeFile(whisper, a, text, fault) :
                      a \in WhisperAudios, text \in Texts, fault \in WhisperFaults} :
          /\ whisper' = res.whisper
          /\ ret' = [Returned("transcribe", res.raised = None, None, NoSession)
                       EXCEPT !.raised = res.raised,
                              !.transcription = res.transcription]
    /\ UNCHANGED <<sessions, clock, rec, mgr, calls, sent, request, thr, cli, kbd,
                   legacy, win, pure>>

NextWhisper == LoadModel \/ TranscribeCall

SpecWhisper == InitWhisper /\ [][NextWhisper]_vars

\* ------------------------------------------------------------ dispatchers
Handles == {1, 2}

\* the texts handed to a dispatcher
DispatchTexts == { <<>>, <<"o", "k">>, <<" ", "l", "s", " ">> }

\* keyboard.write(text), then Enter if asked: the keys go to the foreground
\* window
Typed(w, text, execute) ==
    << [window |-> w.focus, text |-> text, enter |-> execute] >>

\* A dispatch yields [win, success, error_message].

\* AudioWorker._send_to_current_focus
SendToCurrentFocus(w, text, execute) ==
    [win |-> [w EXCEPT !.typed = Typed(w, text, execute)],
     success |-> TRUE, error_message |-> None]

\* AudioWorker._send_to_target_window; focus_ok tells whether
\* SetForegroundWindow brought the target to the foreground
SendToTargetWindow(w, text, execute, focus_ok) ==
    IF w.target_window_handle \notin w.windows
    THEN SendToCurrentFocus([w EXCEPT !.target_window_handle = NoWindow], text, execute)
    ELSE LET focused == IF focus_ok THEN [w EXCEPT !.focus = w.target_window_handle] ELSE w
         IN  [win |-> [w EXCEPT !.typed = Typed(focused, text, execute)],
              success |-> TRUE, error_message |-> None]

\* AudioWorker.send_text_to_target
SendTextToTarget(w, text, execute, focus_ok) ==
    LET text_to_type == <<" ">> \o text
        w1 == [w EXCEPT !.asked = w.target_window_handle, !.typed = <<>>]
    IN  IF w.target_window_handle # NoWindow
        THEN SendToTargetWindow(w1, text_to_type, execute, focus_ok)
        ELSE SendToCurrentFocus(w1, text_to_type, execute)

\* WindowManager.is_window_valid
IsWindowValid(w, target) == target = NoWindow \/ target \in w.windows

\* WindowManager.focus_window
FocusWindow(w, target, focus_ok) ==
    IF target = NoWindow THEN [win |-> w, ok |-> TRUE]
    ELSE IF ~IsWindowValid(w, target) THEN [win |-> w, ok |-> FALSE]
    ELSE IF focus_ok THEN [win |-> [w EXCEPT !.focus = target], ok |-> TRUE]
    ELSE [win |-> w, ok |-> FALSE]

\* WindowManager.send_text: [win, ok]
WindowManagerSendText(w, text, target, execute, focus_ok) ==
    LET focused == FocusWindow(w, target, focus_ok)
        text_to_type == IF text # <<>> /\ Head(text) # " " THEN <<" ">> \o text ELSE text
    IN  IF target # NoWindow /\ ~focused.ok
        THEN [win |-> w, ok |-> FALSE]
        ELSE [win |-> [w EXCEPT !.typed = Typed(focused.win, text_to_type, execute)],
              ok |-> TRUE]

\* SendTextUseCase.execute with add_leading_space
SendTextExecute(w, text, target, execute, focus_ok) ==
    LET w1 == [w EXCEPT !.asked = target, !.typed = <<>>]
        cleaned == <<" ">> \o CleanText(text)
        out == WindowManagerSendText(w1, cleaned, target, execute, focus_ok)
    IN  IF text = <<>> \/ Strip(text) = <<>>
        THEN [win |-> w1, success |-> FALSE, error_message |-> "No text to send"]
        ELSE IF target # NoWindow /\ ~IsWindowValid(w1, target)
        THEN [win |-> w1, success |-> FALSE,
              error_message |-> "Target window no longer exists"]
        ELSE IF out.ok
        THEN [win |-> out.win, success |-> TRUE, error_message |-> None]
        ELSE [win |-> out.win, success |-> FALSE,
              error_message |-> "Failed to send text to target window"]

InitDispatch ==
    /\ sessions = <<>>
    /\ clock = 0
    /\ rec = RecorderInit
    /\ mgr = [current_session |-> NoSession]
    /\ ret = Returned("init", TRUE, None, NoSession)
    /\ calls = <<>>
    /\ sent = <<>>
    /\ request = <<>>
    /\ thr = ThreadsInit
    /\ cli = CliInit
    /\ kbd = KeyboardInit
    /\ legacy = LegacyInit
    /\ whisper = WhisperInit
    /\ win = WindowsInit
    /\ pure = PureInit

DispatchStep(w, op, success, error_message) ==
    /\ win' = w
    /\ ret' = Returned(op, success, error_message, NoSession)
    /\ UNCHANGED <<sessions, clock, rec, mgr, calls, sent, request, thr, cli, kbd,
                   legacy, whisper, pure>>

\* the user opens a window, which takes the foreground
OpenWindow == \E h \in Handles \ win.windows :
    DispatchStep([win EXCEPT !.windows = @ \cup {h}, !.focus = h], "desktop", TRUE, None)

\* a window is closed; if it had the foreground another one (or none) gets it
CloseWindow == \E h \in win.windows :
    \E f \in IF win.focus = h THEN (win.windows \ {h}) \cup {NoWindow} ELSE {win.focus} :
        DispatchStep([win EXCEPT !.windows = @ \ {h}, !.focus = f], "desktop", TRUE, None)

\* the user brings a window to the foreground
ClickWindow == \E h \in win.windows \ {win.focus} :
    DispatchStep([win EXCEPT !.focus = h], "desktop", TRUE, None)

\* AudioWorker.set_target_window, from the list of windows shown
SetTargetWindow == \E h \in win.windows \cup {NoWindow} :
    DispatchStep([win EXCEPT !.target_window_handle = h], "set_target_window", TRUE, None)

\* AudioWorker.send_text_to_target
GuiSend ==
    \E res \in {SendTextToTarget(win, text, execute, focus_ok) :
                   text \in DispatchTexts \ {<<>>}, execute \in BOOLEAN,
                   focus_ok \in BOOLEAN} :
        DispatchStep(res.win, "send_text_to_target", res.success, res.error_message)

\* SendTextUseCase.execute on the WindowManager
ModularSend ==
    \E res \in {SendTextExecute(win, text, target, execute, focus_ok) :
                   text \in DispatchTexts, target \in Handles \cup {NoWindow},
                   execute \in BOOLEAN, focus_ok \in BOOLEAN} :
        DispatchStep(res.win, "SendTextUseCase.execute", res.success, res.error_message)

NextDispatch ==
    OpenWindow \/ CloseWindow \/ ClickWindow \/ SetTargetWindow \/ GuiSend \/ ModularSend

SpecDispatch == InitDispatch /\ [][NextDispatch]_vars

\* ------------------------------------------------ TranscriptionValidator
MaxSamples == 5     \* longest buffer handed to validate_audio

\* sample values, in units of 0.001
Amplitudes == {-10, 0, 1, 5, 10}

\* the buffers handed to validate_audio
Audios == UNION {[1..n -> Amplitudes] : n \in 0..MaxSamples}

\* n times the character c
Repeat(c, n) == [i \in 1..n |-> c]

\* the texts of the transcriptions handed to validate_transcription
ValidatorTexts ==
    Texts \cup
    { <<" ">>,
      <<" ", "Y", "O", "U", ".", " ">>,
      <<"T", "h", "a", "n", "k", "s", " ", "f", "o", "r", " ", "W", "a", "t", "c", "h", "i", "n", "g">>,
      <<"y", "o", "u", " ", "t", "o", "o">>,
      Repeat("a", ShortTextLength - 1),
      Repeat("a", ShortTextLength),
      Repeat("a", ShortTextLength + 1),
      <<" ">> \o Repeat("a", ShortTextLength - 1) \o <<" ">> }

\* the audio whose RMS the transcription carries or the validator is given:
\* RMS 0, below 0.01, exactly 0.01 and above
SourceAudios == { <<0, 0>>, <<1, 0>>, <<5, 5>>, <<10, 10>>, <<-10, 10>>, <<20, 20>> }

\* the calls made of the validator: validate_audio(audio_data), and
\* validate_transcription where the transcription carries the RMS of its
\* source audio or None and the same audio is passed or not
ValidatorCalls ==
    {PureCall("validate_audio", <<>>, <<a>>, FALSE, TRUE) : a \in Audios}
    \cup
    {PureCall("validate_transcription", <<text>>,
              IF carried \/ given THEN <<a>> ELSE <<>>, carried, given) :
        text \in ValidatorTexts, a \in SourceAudios,
        carried \in BOOLEAN, given \in BOOLEAN}

InitValidator ==
    /\ sessions = <<>>
    /\ clock = 0
    /\ rec = RecorderInit
    /\ mgr = [current_session |-> NoSession]
    /\ ret = Returned("init", TRUE, None, NoSession)
    /\ calls = <<>>
    /\ sent = <<>>
    /\ request = <<>>
    /\ thr = ThreadsInit
    /\ cli = CliInit
    /\ kbd = KeyboardInit
    /\ legacy = LegacyInit
    /\ whisper = WhisperInit
    /\ win = WindowsInit
    /\ pure \in ValidatorCalls

\* the function called returns
PureReturn(out) ==
    /\ ~pure.done
    /\ pure' = [pure EXCEPT !.done = TRUE, !.out = out]
    /\ UNCHANGED <<sessions, clock, rec, mgr, ret, calls, sent, request, thr, cli, kbd,
                   legacy, whisper, win>>

\* validate_audio
ValidateAudioCall ==
    /\ pure.fn = "validate_audio"
    /\ PureReturn(ValidateAudio(pure.audio[1]))

\* validate_transcription
ValidateTranscriptionCall ==
    /\ pure.fn = "validate_transcription"
    /\ LET tr == Transcription(pure.text[1], 2,
                               IF pure.carried THEN pure.audio ELSE <<>>)
           audio_data == IF pure.given THEN pure.audio ELSE <<>>
       IN  PureReturn(ValidateTranscriptionOf(tr, audio_data))

NextValidator == ValidateAudioCall \/ ValidateTranscriptionCall

SpecValidator == InitValidator /\ [][NextValidator]_vars

\* ----------------------------------------------------- VoiceCommandParser
\* the texts handed to parse: a beginning, with or without whitespace before
\* it, and what follows
ParserHeads ==
    { <<"E", "x", "e", "c", "u", "t", "e", " ", "M", "o", "d", "e">>,
      <<"e", "x", "e", "c", "u", "t", "e", " ", "c", "o", "m", "m", "a", "n", "d">>,
      <<"E", "X", "E", "C", "U", "T", "E">>,
      <<"e", "x", "e", "c", "u", "t", "e", "d">>,
      <<"r", "u", "n", " ", "c", "o", "m", "m", "a", "n", "d">>,
      <<"R", "u", "n", " ", "T", "h", "i", "s">>,
      <<"c", "o", "m", "m", "a", "n", "d", " ", "m", "o", "d", "e">>,
      <<"t", "a", "r", "g", "e", "t", " ", "w", "i", "n", "d", "o", "w">>,
      <<"S", "e", "n", "d", " ", "T", "o", " ", "W", "i", "n", "d", "o", "w">>,
      <<"w", "i", "n", "d", "o", "w">>,
      <<"c", "o", "n", "f", "i", "g">>,
      <<"C", "o", "n", "f", "i", "g", "u", "r", "e">>,
      <<"s", "e", "t", "t", "i", "n", "g", "s">>,
      <<"s", "e", "t", "u", "p">>,
      <<"h", "e", "l", "l", "o">>,
      <<"r", "u", "n">>,
      <<"o", "k">> }

ParserTails ==
    { <<>>, <<" ", "l", "s">>, <<" ", " ", "l", "s", " ", " ", "-", "l", "a", " ">>,
      <<" ", "w", "i", "n", "d", "o", "w", " ", "x">> }

ParserTexts ==
    {pre \o h \o t : pre \in {<<>>, <<" ">>, <<"\t">>}, h \in ParserHeads, t \in ParserTails}
    \cup { <<>>, <<" ">>, <<" ", "\n", "\t", " ">> }

ParserCalls ==
    {PureCall("parse", <<t>>, <<>>, FALSE, FALSE) : t \in ParserTexts}
    \cup {PureCall("parse", <<>>, <<>>, FALSE, FALSE)}

InitParser ==
    /\ sessions = <<>>
    /\ clock = 0
    /\ rec = RecorderInit
    /\ mgr = [current_session |-> NoSession]
    /\ ret = Returned("init", TRUE, None, NoSession)
    /\ calls = <<>>
    /\ sent = <<>>
    /\ request = <<>>
    /\ thr = ThreadsInit
    /\ cli = CliInit
    /\ kbd = KeyboardInit
    /\ legacy = LegacyInit
    /\ whisper = WhisperInit
    /\ win = WindowsInit
    /\ pure \in ParserCalls

\* parse
ParseCall ==
    /\ pure.fn = "parse"
    /\ PureReturn(ParseOf(pure.text))

NextParser == ParseCall

SpecParser == InitParser /\ [][NextParser]_vars

\* --------------------------------------------------- AudioData objects
\* The transforms are called on an AudioData object: a frozen record of an
\* array reference, a sample rate and a channel count.  arrays[r] is the
\* ndarray r: its amplitudes in row order and its number of columns (0 for
\* 1-D data); objects[1] is the argument and out the object returned (0 when
\* the call raised).
MaxBuffer == 6
BufferAmplitudes == {0, 2, -10}
\* two pairs of samples, each pair loud only in a window that holds both
SplitPairs == <<0, 2, 0, 0, 2, 0, 0, 0, 0, 0, 2, 0, 0, 2, 0, 0, 0>>
Buffers == UNION {[1..n -> BufferAmplitudes] : n \in 0..MaxBuffer} \cup {SplitPairs}
StereoBuffers == UNION {[1..(2 * n) -> BufferAmplitudes] : n \in 0..2}
WindowSizes == 0..4
Thresholds == {1, 5}
SampleRates == {SampleRate, 2 * SampleRate}

\* AudioData(data=..., sample_rate=..., channels=...)
AudioData(data, sample_rate, channels) ==
    [data |-> data, sample_rate |-> sample_rate, channels |-> channels]

\* np.ndarray of shape (len,) or (len / columns, columns)
Array(flat, columns) == [flat |-> flat, columns |-> columns]

AudioCall(fn, samples, sample_rate, channels, threshold, window_size) ==
    [fn |-> fn, done |-> FALSE, raised |-> FALSE,
     arrays |-> <<Array(samples, IF channels > 1 THEN channels ELSE 0)>>,
     objects |-> <<AudioData(1, sample_rate, channels)>>,
     threshold |-> threshold, window_size |-> window_size, out |-> 0]

\* the call returns a new AudioData built on a new array
ReturnNew(c, samples, channels) ==
    [c EXCEPT !.done = TRUE,
              !.arrays = Append(c.arrays, Array(samples, 0)),
              !.objects = Append(c.objects,
                  AudioData(Len(c.arrays) + 1, c.objects[1].sample_rate, channels)),
              !.out = Len(c.objects) + 1]

\* the call returns a new AudioData built on the argument's own array
ReturnShared(c) ==
    [c EXCEPT !.done = TRUE,
              !.objects = Append(c.objects,
                  AudioData(c.objects[1].data, c.objects[1].sample_rate,
                            c.objects[1].channels)),
              !.out = Len(c.objects) + 1]

\* the call returns its argument
ReturnSelf(c) == [c EXCEPT !.done = TRUE, !.out = 1]

\* range(..., 0) raises ValueError
ReturnRaised(c) == [c EXCEPT !.done = TRUE, !.raised = TRUE]

\* AudioData.normalize
NormalizeOf(c, target_peak) ==
    LET data == c.arrays[c.objects[1].data].flat
    IN  IF Peak(data) > 0
        THEN ReturnNew(c, Normalize(data, target_peak), c.objects[1].channels)
        ELSE ReturnShared(c)

\* AudioData.to_mono: np.mean(self.data, axis=1) of two-column data
ToMonoOf(c) ==
    LET data == c.arrays[c.objects[1].data]
    IN  IF data.columns > 1
        THEN ReturnNew(c, [k \in 1..(Len(data.flat) \div 2) |->
                              Scale(data.flat[2 * k - 1] + data.flat[2 * k], 1, 2)], 1)
        ELSE ReturnSelf(c)

\* AudioProcessor.trim_silence with window_size = int(min_silence_duration *
\* sample_rate): range(0, len(data) - window_size, window_size // 2)
TrimSilenceOf_AlwaysSlice(c) ==
    IF c.window_size \div 2 = 0 THEN ReturnRaised(c)
    ELSE ReturnNew(c, TrimSilence(c.arrays[c.objects[1].data].flat, c.threshold,
                                  c.window_size),
                   c.objects[1].channels)

TrimSilenceOf(c) ==
    LET data == c.arrays[c.objects[1].data].flat
        w == c.window_size
        first == FirstLoud(data, 0, Len(data) - w, w \div 2, w, c.threshold)
        last == LastLoud(data, Len(data) - w, (w + 1) \div 2, w, c.threshold)
        start_idx == IF first = -1 THEN 0 ELSE first
        end_idx == IF last = -1 THEN Len(data) ELSE last + w
    IN  IF w \div 2 = 0 THEN ReturnRaised(c)
        ELSE IF start_idx >= end_idx THEN ReturnSelf(c)
        ELSE ReturnNew(c, TrimSilence(data, c.threshold, w), c.objects[1].channels)

\* AudioProcessor.apply_noise_gate with window_size = int(0.01 * sample_rate):
\* data = audio_data.data.copy(); range(0, len(data) - window_size, window_size)
ApplyNoiseGateOf(c) ==
    IF c.window_size = 0 THEN ReturnRaised(c)
    ELSE ReturnNew(c, ApplyNoiseGate(c.arrays[c.objects[1].data].flat, c.threshold,
                                     c.window_size, GateRelease),
                   c.objects[1].channels)

InitAudio ==
    /\ sessions = <<>>
    /\ clock = 0
    /\ rec = RecorderInit
    /\ mgr = [current_session |-> NoSession]
    /\ ret = Returned("init", TRUE, None, NoSession)
    /\ calls = <<>>
    /\ sent = <<>>
    /\ request = <<>>
    /\ thr = ThreadsInit
    /\ cli = CliInit
    /\ kbd = KeyboardInit
    /\ legacy = LegacyInit
    /\ whisper = WhisperInit
    /\ win = WindowsInit
    /\ \/ \E a \in Buffers : \E t \in Thresholds : \E w \in WindowSizes :
             pure \in {AudioCall("trim_silence", a, SampleRate, 1, t, w),
                       AudioCall("apply_noise_gate", a, SampleRate, 1, t, w)}
       \/ \E a \in Buffers : \E r \in SampleRates :
             pure \in {AudioCall("normalize", a, r, 1, 0, 0),
                       AudioCall("to_mono", a, r, 1, 0, 0)}
       \/ \E a \in StereoBuffers : \E r \in SampleRates :
             pure = AudioCall("to_mono", a, r, 2, 0, 0)

AudioReturn(c) ==
    /\ ~pure.done
    /\ pure' = c
    /\ UNCHANGED <<sessions, clock, rec, mgr, ret, calls, sent, request, thr, cli,
                   kbd, legacy, whisper, win>>

NormalizeCall == pure.fn = "normalize" /\ AudioReturn(NormalizeOf(pure, TargetPeak))

ToMonoCall == pure.fn = "to_mono" /\ AudioReturn(ToMonoOf(pure))

TrimSilenceCall == pure.fn = "trim_silence" /\ AudioReturn(TrimSilenceOf(pure))

NoiseGateCall == pure.fn = "apply_noise_gate" /\ AudioReturn(ApplyNoiseGateOf(pure))

NextAudio == NormalizeCall \/ ToMonoCall \/ TrimSilenceCall \/ NoiseGateCall

SpecAudio == InitAudio /\ [][NextAudio]_vars

\* ------------------------------- two callers of recorder.stop_recording
\* Two threads call SoundDeviceRecorder.stop_recording.  thr.lock is the
\* holder of self._lock (0: free), thr.pc[t] the place of caller t inside
\* "with self._lock:", thr.out[t] the samples of the AudioData it returned
\* (<<>> for none, <<a>> otherwise) and thr.raised[t] the message of the
\* exception it raised.  Block k of the stream is the one sample <<k>>; cb is
\* the block the callback holds after finding self.recording true, put the
\* blocks put into the queue.
Callers == {1, 2}

TwoStopsInit ==
    [lock |-> 0,
     pc |-> [t \in Callers |-> "idle"],
     out |-> [t \in Callers |-> <<>>],
     raised |-> [t \in Callers |-> None],
     cb |-> <<>>, n |-> 0, put |-> <<>>]

InitTwoStops ==
    /\ sessions = <<>>
    /\ clock = 0
    /\ rec = RecorderInit
    /\ mgr = [current_session |-> NoSession]
    /\ ret = Returned("init", TRUE, None, NoSession)
    /\ calls = <<>>
    /\ sent = <<>>
    /\ request = <<>>
    /\ thr = TwoStopsInit
    /\ cli = CliInit
    /\ kbd = KeyboardInit
    /\ legacy = LegacyInit
    /\ whisper = WhisperInit
    /\ win = WindowsInit
    /\ pure = PureInit

TwoStopsStep(r, t) ==
    /\ rec' = r
    /\ thr' = t
    /\ UNCHANGED <<sessions, clock, mgr, ret, calls, sent, request, cli, kbd, legacy,
                   whisper, win, pure>>

\* start_recording, before either caller is in stop_recording
ArmRecorder ==
    /\ thr.lock = 0
    /\ rec.stream = "none"
    /\ \A t \in Callers : thr.pc[t] = "idle"
    /\ TwoStopsStep(RecorderStart(rec, NoDevice, "none").rec, thr)

\* threading.Lock: acquire succeeds when nobody holds it
LockFree_Always == TRUE

LockFree == thr.lock = 0

\* with self._lock:
AcquireLock(t) ==
    /\ thr.pc[t] = "idle"
    /\ rec.stream # "none"
    /\ LockFree
    /\ TwoStopsStep(rec, [thr EXCEPT !.lock = t, !.pc[t] = "guard"])

\* if not self.recording: raise RuntimeError("Not recording")
TestRecording(t) ==
    /\ thr.pc[t] = "guard"
    /\ IF ~rec.recording
       THEN TwoStopsStep(rec, [thr EXCEPT !.lock = 0, !.pc[t] = "done",
                                          !.raised[t] = "Not recording"])
       ELSE TwoStopsStep(rec, [thr EXCEPT !.pc[t] = "clear"])

\* self.recording = False
ClearRecording(t) ==
    /\ thr.pc[t] = "clear"
    /\ TwoStopsStep([rec EXCEPT !.recording = FALSE], [thr EXCEPT !.pc[t] = "stop_stream"])

\* if self.stream: self.stream.stop(), which returns once the callback in
\* flight has ended, or raises
HaltStream(t) ==
    /\ thr.pc[t] = "stop_stream"
    /\ \/ /\ rec.stream = "running" => thr.cb = <<>>
          /\ TwoStopsStep([rec EXCEPT !.stream = "stopped"], [thr EXCEPT !.pc[t] = "drain"])
       \/ TwoStopsStep(rec, [thr EXCEPT !.lock = 0, !.pc[t] = "done",
                                        !.raised[t] = "Error stopping stream"])

\* the queue is drained and its chunks are returned as one AudioData
DrainQueue(t) ==
    /\ thr.pc[t] = "drain"
    /\ TwoStopsStep([rec EXCEPT !.queue = <<>>],
                    [thr EXCEPT !.lock = 0, !.pc[t] = "done",
                                !.out[t] = <<Concat(rec.queue)>>])

\* _audio_callback is called with the next block: if self.recording
BlockArrives ==
    /\ rec.stream = "running"
    /\ thr.cb = <<>>
    /\ thr.n < MaxBlocks
    /\ TwoStopsStep(rec, [thr EXCEPT !.n = @ + 1,
                                     !.cb = IF CallbackTest(rec)
                                            THEN << <<thr.n + 1>> >> ELSE <<>>])

\* self.audio_queue.put(indata.copy())
BlockQueued ==
    /\ thr.cb # <<>>
    /\ TwoStopsStep(QueuePut(rec, thr.cb[1]),
                    [thr EXCEPT !.cb = <<>>, !.put = Append(@, thr.cb[1])])

NextTwoStops ==
    \/ ArmRecorder
    \/ \E t \in Callers : AcquireLock(t)
    \/ \E t \in Callers : TestRecording(t)
    \/ \E t \in Callers : ClearRecording(t)
    \/ \E t \in Callers : HaltStream(t)
    \/ \E t \in Callers : DrainQueue(t)
    \/ BlockArrives
    \/ BlockQueued

SpecTwoStops == InitTwoStops /\ [][NextTwoStops]_vars

\* ------------------------------------ the legacy loop's two stop callers
\* SpeechToText.stop_recording statement by statement, called by the
\* keyboard thread (on_release_key) and by the audio_monitor thread.
\* legacy.pc[t] is the place of thread t in stop_recording, legacy.got[t] its
\* local list audio_data, legacy.processed the buffers handed to
\* process_audio; block k of the stream is the one sample <<k>>.
StopThreads == {"release", "monitor"}

RaceInit ==
    [recording |-> FALSE, queue |-> <<>>, started |-> FALSE,
     pc |-> [t \in StopThreads |-> "idle"],
     got |-> [t \in StopThreads |-> <<>>],
     processed |-> <<>>, n |-> 0, put |-> <<>>]

InitRace ==
    /\ sessions = <<>>
    /\ clock = 0
    /\ rec = RecorderInit
    /\ mgr = [current_session |-> NoSession]
    /\ ret = Returned("init", TRUE, None, NoSession)
    /\ calls = <<>>
    /\ sent = <<>>
    /\ request = <<>>
    /\ thr = ThreadsInit
    /\ cli = CliInit
    /\ kbd = KeyboardInit
    /\ legacy = RaceInit
    /\ whisper = WhisperInit
    /\ win = WindowsInit
    /\ pure = PureInit

RaceStep(l) ==
    /\ legacy' = l
    /\ UNCHANGED <<sessions, clock, rec, mgr, ret, calls, sent, request, thr, cli, kbd,
                   whisper, win, pure>>

\* start_recording on the first key press
RacePress ==
    /\ ~legacy.started
    /\ ~legacy.recording
    /\ RaceStep([legacy EXCEPT !.recording = TRUE, !.queue = <<>>, !.started = TRUE])

\* audio_callback: if self.recording: self.audio_queue.put(indata.copy())
RaceCallback ==
    /\ legacy.recording
    /\ legacy.n < MaxBlocks
    /\ RaceStep([legacy EXCEPT !.n = @ + 1,
                               !.queue = Append(@, <<legacy.n + 1>>),
                               !.put = Append(@, <<legacy.n + 1>>)])

\* on_release_key fires: the keyboard thread calls stop_recording
ReleaseCalls ==
    /\ legacy.started
    /\ legacy.pc["release"] = "idle"
    /\ RaceStep([legacy EXCEPT !.pc["release"] = "test"])

\* audio_monitor finds self.recording true and the recording overdue, and
\* calls stop_recording
MonitorCalls ==
    /\ legacy.recording
    /\ legacy.pc["monitor"] = "idle"
    /\ RaceStep([legacy EXCEPT !.pc["monitor"] = "test"])

\* if self.recording:
StopTest(t) ==
    IF legacy.recording
    THEN [legacy EXCEPT !.pc[t] = "clear"]
    ELSE [legacy EXCEPT !.pc[t] = "idle"]

StopTestStep(t) ==
    /\ legacy.pc[t] = "test"
    /\ RaceStep(StopTest(t))

\* self.recording = False ... time.sleep(0.2); audio_data = []
StopClear(t) ==
    /\ legacy.pc[t] = "clear"
    /\ RaceStep([legacy EXCEPT !.recording = FALSE, !.pc[t] = "loop", !.got[t] = <<>>])

\* while not self.audio_queue.empty():
StopLoop(t) ==
    /\ legacy.pc[t] = "loop"
    /\ RaceStep([legacy EXCEPT !.pc[t] = IF legacy.queue = <<>> THEN "hand" ELSE "get"])

\* audio_data.append(self.audio_queue.get()): get blocks on an empty queue
StopGet(t) ==
    /\ legacy.pc[t] = "get"
    /\ legacy.queue # <<>>
    /\ RaceStep([legacy EXCEPT !.queue = Tail(@), !.pc[t] = "loop",
                               !.got[t] = Append(@, Head(legacy.queue))])

\* if audio_data: self.process_audio(np.concatenate(audio_data))
StopHand(t) ==
    /\ legacy.pc[t] = "hand"
    /\ RaceStep([legacy EXCEPT !.pc[t] = "idle", !.got[t] = <<>>,
                               !.processed = IF legacy.got[t] = <<>> THEN @
                                             ELSE Append(@, Concat(legacy.got[t]))])

NextRace ==
    \/ RacePress
    \/ RaceCallback
    \/ ReleaseCalls
    \/ MonitorCalls
    \/ \E t \in StopThreads : StopTestStep(t)
    \/ \E t \in StopThreads : StopClear(t)
    \/ \E t \in StopThreads : StopLoop(t)
    \/ \E t \in StopThreads : StopGet(t)
    \/ \E t \in StopThreads : StopHand(t)

SpecRace == InitRace /\ [][NextRace]_vars

\* ------------------------------------------- KeyboardSimulator's hooks
\* kbd.listening is self.listening; kbd.registered_hotkeys[key] is <<>> for
\* a key that is not in the dict and otherwise <<entry>> with on_press /
\* on_release telling whether a callback was given and press_hook /
\* release_hook the hook stored (0 for None).  kbd.hooks are the hooks the
\* keyboard library holds, each [id, key, kind]; kbd.made counts the hooks
\* the library has created.
MaxHooks == 4

HooksInit ==
    [listening |-> FALSE,
     registered_hotkeys |-> [k \in Keys |-> <<>>],
     hooks |-> {},
     made |-> 0]

\* _register_key_hooks
RegisterKeyHooks(k, key) ==
    IF k.registered_hotkeys[key] = <<>> THEN k
    ELSE LET handlers == k.registered_hotkeys[key][1]
             p == IF handlers.on_press THEN 1 ELSE 0
             r == IF handlers.on_release THEN 1 ELSE 0
             press == IF handlers.on_press
                      THEN {[id |-> k.made + 1, key |-> key, kind |-> "press"]} ELSE {}
             release == IF handlers.on_release
                        THEN {[id |-> k.made + p + 1, key |-> key, kind |-> "release"]}
                        ELSE {}
         IN  [k EXCEPT !.hooks = @ \cup press \cup release,
                       !.made = @ + p + r,
                       !.registered_hotkeys[key] =
                           << [handlers EXCEPT
                                 !.press_hook = IF handlers.on_press
                                                THEN k.made + 1 ELSE @,
                                 !.release_hook = IF handlers.on_release
                                                  THEN k.made + p + 1 ELSE @] >>]

\* _unregister_key_hooks
UnregisterKeyHooks(k, key) ==
    IF k.registered_hotkeys[key] = <<>> THEN k
    ELSE LET handlers == k.registered_hotkeys[key][1]
         IN  [k EXCEPT !.hooks = {h \in @ : h.id \notin {handlers.press_hook,
                                                         handlers.release_hook}},
                       !.registered_hotkeys[key] =
                           << [handlers EXCEPT !.press_hook = 0, !.release_hook = 0] >>]

\* for key in self.registered_hotkeys: self._register_key_hooks(key)
RECURSIVE RegisterAll(_, _)
RegisterAll(k, keys) ==
    IF keys = {} THEN k
    ELSE LET key == CHOOSE x \in keys : TRUE
         IN  RegisterAll(RegisterKeyHooks(k, key), keys \ {key})

\* for key in list(self.registered_hotkeys.keys()): self._unregister_key_hooks(key)
RECURSIVE UnregisterAll(_, _)
UnregisterAll(k, keys) ==
    IF keys = {} THEN k
    ELSE LET key == CHOOSE x \in keys : TRUE
         IN  UnregisterAll(UnregisterKeyHooks(k, key), keys \ {key})

\* register_hotkey
HookRegister(k, key, on_press, on_release) ==
    LET k1 == [k EXCEPT !.registered_hotkeys[key] =
                  << [on_press |-> on_press, on_release |-> on_release,
                      press_hook |-> 0, release_hook |-> 0] >>]
    IN  IF k.listening THEN RegisterKeyHooks(k1, key) ELSE k1

\* unregister_hotkey
HookUnregister(k, key) ==
    IF k.registered_hotkeys[key] = <<>> THEN k
    ELSE [UnregisterKeyHooks(k, key) EXCEPT !.registered_hotkeys[key] = <<>>]

\* start_listening
HookStartListening(k) ==
    IF k.listening THEN k
    ELSE RegisterAll([k EXCEPT !.listening = TRUE],
                    {key \in Keys : k.registered_hotkeys[key] # <<>>})

\* stop_listening
HookStopListening(k) ==
    IF ~k.listening THEN k
    ELSE UnregisterAll([k EXCEPT !.listening = FALSE],
                    {key \in Keys : k.registered_hotkeys[key] # <<>>})

InitHooks ==
    /\ sessions = <<>>
    /\ clock = 0
    /\ rec = RecorderInit
    /\ mgr = [current_session |-> NoSession]
    /\ ret = Returned("init", TRUE, None, NoSession)
    /\ calls = <<>>
    /\ sent = <<>>
    /\ request = <<>>
    /\ thr = ThreadsInit
    /\ cli = CliInit
    /\ kbd = HooksInit
    /\ legacy = LegacyInit
    /\ whisper = WhisperInit
    /\ win = WindowsInit
    /\ pure = PureInit

HooksStep(k) ==
    /\ k.made <= MaxHooks
    /\ kbd' = k
    /\ UNCHANGED <<sessions, clock, rec, mgr, ret, calls, sent, request, thr, cli,
                   legacy, whisper, win, pure>>

RegisterCall == \E key \in Keys : \E on_press \in BOOLEAN : \E on_release \in BOOLEAN :
    HooksStep(HookRegister(kbd, key, on_press, on_release))

UnregisterCall == \E key \in Keys : HooksStep(HookUnregister(kbd, key))

StartListeningCall == HooksStep(HookStartListening(kbd))

StopListeningCall == HooksStep(HookStopListening(kbd))

NextHooks == RegisterCall \/ UnregisterCall \/ StartListeningCall \/ StopListeningCall

SpecHooks == InitHooks /\ [][NextHooks]_vars

\* ============================================================ properties
\* ------------------------------------------------ RecordingSession entity

\* C4: start(), stop() and complete() change the state only Idle->Recording,
\* Recording->Processing and Processing->Completed; called from any other
\* state each raises and leaves the whole session (state, start time, end
\* time, error message) as it was.
C4_OnlyLegalTransitions ==
    [][ /\ CallStart =>
             IF sessions[1].state = "idle"
             THEN sessions'[1].state = "recording" /\ ret'.raised = None
             ELSE sessions'[1] = sessions[1] /\ ret'.raised # None
        /\ CallStop =>
             IF sessions[1].state = "recording"
             THEN sessions'[1].state = "processing" /\ ret'.raised = None
             ELSE sessions'[1] = sessions[1] /\ ret'.raised # None
        /\ CallComplete =>
             IF sessions[1].state = "processing"
             THEN sessions'[1].state = "completed" /\ ret'.raised = None
             ELSE sessions'[1] = sessions[1] /\ ret'.raised # None ]_vars

\* start() was called on a Completed session: it raised, the session still
\* is Completed with both its times.
C4_Witness ==
    /\ ret.op = "start" /\ ret.raised # None
    /\ sessions[1].state = "completed"
    /\ sessions[1].start_time # NoTime /\ sessions[1].end_time # NoTime

\* C5: fail(reason) never raises, and after it the state is Error and the
\* error message is the reason given, whatever the state before.
C5_FailAlwaysLegal ==
    [][ \A reason \in Reasons :
          CallFailWith(reason) =>
             /\ ret'.raised = None
             /\ sessions'[1].state = "error"
             /\ sessions'[1].error_message = reason ]_vars

\* fail() has acted on a session that had been stopped (Processing or later).
C5_Witness ==
    /\ ret.op = "fail" /\ ret.raised = None
    /\ sessions[1].state = "error" /\ sessions[1].error_message \in Reasons
    /\ sessions[1].end_time # NoTime

\* C6: fail() on a Recording session records an end time, so duration() is
\* end time minus start time afterwards.
C6_FailFromRecordingSetsEndTime ==
    [][ (CallFail /\ sessions[1].state = "recording") =>
          /\ sessions'[1].end_time # NoTime
          /\ SessionDuration(sessions'[1], clock')
                = sessions'[1].end_time - sessions'[1].start_time ]_vars

\* C7 as stated: once Completed, no call changes the state.
C7_CompletedNeverLeft ==
    [][ sessions[1].state = "completed" => sessions'[1].state = "completed" ]_vars

\* C7 amended: once Completed, start(), stop() and complete() raise and leave
\* the session unchanged; the only call that leaves Completed is fail(),
\* which moves the session to Error.
C7_CompletedLeftOnlyByFail ==
    [][ sessions[1].state = "completed" =>
          /\ (CallStart \/ CallStop \/ CallComplete) =>
                (sessions'[1] = sessions[1] /\ ret'.raised # None)
          /\ sessions'[1].state # "completed" =>
                (CallFail /\ sessions'[1].state = "error") ]_vars

\* stop() was called on a Completed session and raised.
C7_Witness ==
    /\ sessions[1].state = "completed"
    /\ ret.op = "stop" /\ ret.raised # None

\* C8: once in Error the session stays in Error: start(), stop() and
\* complete() raise, fail() keeps it in Error.
C8_ErrorAbsorbing ==
    [][ sessions[1].state = "error" =>
          /\ sessions'[1].state = "error"
          /\ (CallStart \/ CallStop \/ CallComplete) => ret'.raised # None
          /\ CallFail => ret'.raised = None ]_vars

\* complete() was called on a session in Error and raised.
C8_Witness ==
    /\ sessions[1].state = "error"
    /\ ret.op = "complete" /\ ret.raised # None

\* ------------------------------------------------- use cases, one recorder
Active(s) == s.state \in {"recording", "processing"}

ActiveSessions == {i \in 1..Len(sessions) : Active(sessions[i])}

RejectedBy(name, i) ==
    i \in 1..Len(calls) /\ calls[i].call = name /\ calls[i].out = "rejected"

Invoked(name) == \E i \in 1..Len(calls) : calls[i].call = name

\* C1: at most one session (that the use case or a response still holds) is
\* Recording or Processing at any time.
C1_AtMostOneActiveSession == Cardinality(ActiveSessions) <= 1

\* C2: execute never lets an exception reach its caller: whichever
\* collaborator raised, the response has success = false and the session is
\* in Error with the exception's message.
C2_ExecuteNeverRaises ==
    ret.op = "execute" =>
        /\ ret.raised = None
        /\ \A i \in 1..Len(calls) :
              calls[i].out = "raised" =>
                 /\ ~ret.success
                 /\ ret.session # NoSession
                 /\ sessions[ret.session].state = "error"
                 /\ sessions[ret.session].error_message = calls[i].msg

\* The transcriber raised in an execute cycle, after the audio was processed.
C2_Witness ==
    /\ ret.op = "execute" /\ ~ret.success
    /\ calls # <<>>
    /\ calls[Len(calls)].call = "transcribe"
    /\ calls[Len(calls)].out = "raised"
    /\ calls[Len(calls)].msg = FaultMsg("transcribe")
    /\ Invoked("normalize_audio")
    /\ sessions[ret.session].error_message = FaultMsg("transcribe")

\* C3: on every return from execute the session of the response is terminal:
\* Completed when success is true, Error when it is false.
C3_ExecuteEndsTerminal ==
    (ret.op = "execute" /\ ret.raised = None) =>
        sessions[ret.session].state = IF ret.success THEN "completed" ELSE "error"

\* C9: when validate_audio rejects the buffer, the session is failed with the
\* validator's reason, the response is a failure with that reason, and
\* neither the audio processor nor the transcriber is invoked in the cycle.
C9_AudioRejectionStopsCycle ==
    \A i \in 1..Len(calls) :
        (ret.op = "execute" /\ RejectedBy("validate_audio", i)) =>
            /\ ret.raised = None
            /\ ~ret.success
            /\ ret.error_message = calls[i].msg
            /\ sessions[ret.session].state = "error"
            /\ sessions[ret.session].error_message = calls[i].msg
            /\ ~Invoked("trim_silence")
            /\ ~Invoked("normalize_audio")
            /\ ~Invoked("apply_noise_gate")
            /\ ~Invoked("transcribe")

\* A captured buffer of silence was rejected before inference.
C9_Witness ==
    /\ ret.op = "execute"
    /\ RejectedBy("validate_audio", Len(calls))
    /\ ret.error_message = "Audio is too quiet"
    /\ sessions[ret.session].state = "error"

\* C10: when validate_transcription rejects the transcription, the session is
\* failed with the reason, the response is a failure that carries neither
\* the transcription nor a voice command, and nothing is handed to the text
\* dispatcher.
C10_TranscriptionRejectionSendsNothing ==
    \A i \in 1..Len(calls) :
        (ret.op = "execute" /\ RejectedBy("validate_transcription", i)) =>
            /\ ret.raised = None
            /\ ~ret.success
            /\ ret.error_message = calls[i].msg
            /\ sessions[ret.session].state = "error"
            /\ sessions[ret.session].error_message = calls[i].msg
            /\ ret.transcription = <<>>
            /\ ret.voice_command = <<>>
            /\ sent = <<>>

\* The model produced a filler phrase for audible audio and it was rejected.
C10_Witness ==
    /\ ret.op = "execute"
    /\ RejectedBy("validate_transcription", Len(calls))
    /\ ret.error_message = "Likely hallucination"
    /\ Invoked("transcribe")
    /\ sent = <<>>

\* ------------------------------------------------------ modular CLI wiring
\* a collaborator call of the last handler, by name and outcome
Made(cs, name, out) == \E i \in 1..Len(cs) : cs[i].call = name /\ cs[i].out = out

\* C11: a press followed by a release that passes the debounce test, with a
\* captured buffer that passes validate_audio, returns normally and, unless
\* a collaborator raised or the post-validator rejected the transcription,
\* has stopped the capture, validated and transcribed the buffer, parsed
\* the transcription and handed its text to the text dispatcher.
C11_PressReleaseDispatches ==
    [][ ( /\ HotkeyReleaseAccepted
          /\ cli.current_session # NoSession
          /\ rec.recording
          /\ ValidateAudio(Concat(rec.queue))[1] )
        => ( /\ ret'.raised = None
             /\ \/ \E i \in 1..Len(calls') : calls'[i].out \in {"raised", "rejected"}
                \/ /\ ~rec'.recording
                   /\ Made(calls', "validate_audio", "ok")
                   /\ Made(calls', "transcribe", "ok")
                   /\ Made(calls', "parse", "ok")
                   /\ ret'.success
                   /\ sent' # <<>> ) ]_vars

\* the time the recorder has been armed for the session run_modular_cli holds
ArmedFor == clock - sessions[cli.current_session].start_time

\* C18: capture armed for longer than the maximum recording duration is
\* disarmed by force, release event or not: the recorder is never found
\* armed more than one poll past the maximum duration.
C18_ForcedDisarm ==
    (rec.recording /\ cli.current_session # NoSession) => ArmedFor <= MaxDuration + 1

\* ------------------------------------------------------- processing order
ProcessingNames == <<"trim_silence", "normalize_audio", "apply_noise_gate">>

IsProcessing(c) == c.call \in {"trim_silence", "normalize_audio", "apply_noise_gate"}

\* the processing calls of the last cycle, in the order they were made
Steps == SelectSeq(calls, IsProcessing)

\* the processing steps a request asks for, in the fixed order
Requested(req) == SelectSeq(ProcessingNames, LAMBDA n : req[n])

IndexOf(name) == CHOOSE i \in 1..Len(calls) : calls[i].call = name

\* C12: in an execute cycle the processing steps made are the requested
\* ones, in the order trim silence, normalize, noise gate (a prefix of them
\* if a step raised), each fed the output of the step before it and the
\* first one the captured buffer, all after validate_audio and before the
\* one call of transcribe, which is passed the output of the last step.
C12_ProcessingOrder ==
    (ret.op = "execute" /\ request # <<>>) =>
        LET req == request[1]
            want == Requested(req)
        IN  /\ Len(Steps) <= Len(want)
            /\ \A i \in 1..Len(Steps) : Steps[i].call = want[i]
            /\ \A i \in 1..Len(Steps) :
                  i < Len(Steps) => Steps[i].out = "ok"
            /\ Steps # <<>> =>
                  /\ Made(calls, "validate_audio", "ok")
                  /\ Steps[1].arg = calls[IndexOf("stop_recording")].res
            /\ \A i \in 1..Len(Steps) - 1 : Steps[i + 1].arg = Steps[i].res
            /\ \A i \in 1..Len(calls) :
                  IsProcessing(calls[i]) => i > IndexOf("validate_audio")
            /\ Cardinality({i \in 1..Len(calls) : calls[i].call = "transcribe"}) <= 1
            /\ Invoked("transcribe") =>
                  /\ Len(Steps) = Len(want)
                  /\ \A i \in 1..Len(calls) :
                        IsProcessing(calls[i]) =>
                           (i < IndexOf("transcribe") /\ calls[i].out = "ok")
                  /\ calls[IndexOf("transcribe")].arg =
                        IF Steps = <<>>
                        THEN calls[IndexOf("stop_recording")].res
                        ELSE Steps[Len(Steps)].res

\* A cycle applied all three steps, the trim shortened the buffer and the
\* normalisation changed it, and the transcriber was passed the result.
C12_Witness ==
    /\ ret.op = "execute" /\ ret.success
    /\ Len(Steps) = 3
    /\ Len(Steps[1].res[1]) < Len(Steps[1].arg[1])
    /\ Steps[2].res # Steps[2].arg
    /\ calls[IndexOf("transcribe")].arg = Steps[3].res

\* ------------------------------------------ SoundDeviceRecorder's threads
\* C13: start_recording on an armed recorder raises 'Already recording' and
\* stop_recording on a recorder that is not armed raises 'Not recording';
\* both leave the armed flag, the queue and the stream as they were.
C13_GuardsLeaveRecorderUnchanged ==
    [][ /\ (CallStartRecording /\ rec.recording) =>
              (ret'.raised = "Already recording" /\ rec' = rec /\ thr'.main = "idle")
        /\ (CallStopRecording /\ ~rec.recording) =>
              (ret'.raised = "Not recording" /\ rec' = rec /\ thr'.main = "idle") ]_vars

\* start_recording was refused on an armed recorder that holds blocks.
C13_Witness ==
    /\ ret.op = "recorder.start_recording" /\ ret.raised = "Already recording"
    /\ rec.recording /\ rec.stream = "running" /\ Len(rec.queue) = 2

\* stop_recording has just returned a buffer
StopReturned ==
    thr.main = "idle" /\ ret.op = "recorder.stop_recording" /\ ret.raised = None

\* b was delivered before c
Earlier(b, c) == b[1] < c[1] \/ (b[1] = c[1] /\ b[2] < c[2])

\* C14: the buffer stop_recording returns is the concatenation of the blocks
\* put into the queue since it was cleared, each once, in the order the
\* stream delivered them.
C14_BufferIsFifo ==
    StopReturned =>
        /\ thr.audio = <<Concat(thr.put)>>
        /\ \A i \in 1..Len(thr.put) - 1 : Earlier(thr.put[i], thr.put[i + 1])

\* arm, three blocks, disarm: the buffer is block 1, block 2, block 3.
C14_Witness ==
    /\ StopReturned
    /\ thr.audio = << <<1, 1, 1, 2, 1, 3>> >>

\* C15 as stated: no block is put into the queue while the armed flag is
\* false.
C15_NoPutWhileDisarmed == [][ CallbackPut => rec.recording ]_vars

\* C15 amended: a callback that finds the armed flag false puts nothing, and
\* a block is put only by a callback that found the flag true when it tested
\* it; the put itself may land after stop_recording has cleared the flag.
C15_PutOnlyAfterArmedTest ==
    [][ /\ (CallbackEnter /\ ~rec.recording) => (thr'.cb = <<>> /\ rec'.queue = rec.queue)
        /\ (CallbackEnter /\ rec.recording) => thr'.cb = << <<thr.gen, thr'.n>> >>
        /\ rec'.queue # rec.queue =>
              \/ rec'.queue = <<>>
              \/ thr.cb # <<>> /\ rec'.queue = Append(rec.queue, thr.cb[1]) ]_vars

\* A callback found the recorder disarmed with its stream still running
\* (between stream.start() and the arming) and dropped its block.
C15_Witness ==
    /\ thr.main = "arm" /\ ~rec.recording /\ rec.stream = "running"
    /\ thr.n = 1 /\ thr.cb = <<>> /\ rec.queue = <<>>

\* C16: the buffer returned for a recording holds no block that an earlier
\* stream delivered.
C16_NoResidualBlocks ==
    StopReturned => \A i \in 1..Len(thr.put) : thr.put[i][1] = thr.gen

\* C17: when stop_recording has left the armed state, by returning or by
\* raising, the recorder is not armed and its stream is not running.
C17_StreamStoppedOnEveryExit ==
    (thr.main = "idle" /\ ret.op = "recorder.stop_recording"
        /\ ret.raised # "Not recording") =>
        (~rec.recording /\ rec.stream # "running")

C20_ReleaseAfterAnyReleaseIgnored ==
    [][ \A key \in Keys :
          (KeyRelease(key) /\ kbd.seen[key] # NoTime
                /\ Time(clock) - kbd.seen[key] < kbd.debounce_time)
          => ~ret'.success ]_vars

\* C20 (amended): a release event of a registered key that comes less than
\* debounce_time after the previous release event of that key for which
\* on_release was invoked is ignored, and does not restart the interval:
\* the next release is measured from the same invoked release.
C20_ReleaseAfterInvokedIgnored ==
    [][ \A key \in Keys :
          (KeyRelease(key) /\ kbd.invoked[key] # NoTime
                /\ Time(clock) - kbd.invoked[key] < kbd.debounce_time)
          => (~ret'.success /\ kbd'.invoked[key] = kbd.invoked[key]) ]_vars

\* A release was ignored one tick after an invoked release of the same key.
C20_Witness ==
    /\ ret.op = "on_release_handler"
    /\ ~ret.success
    /\ \E key \in kbd.registered :
          /\ kbd.seen[key] = Time(clock)
          /\ kbd.invoked[key] = Time(clock) - 1
          /\ kbd.debounce_time = 2

\* ---------------------------------------------------------- capture errors
\* C21: when the recorder's start_recording raises, the use case's
\* start_recording returns success false without raising, the recorder is
\* not armed, no session was added or changed, and current_session is the
\* one held before the call.
C21_CaptureErrorIsFailedArm ==
    [][ (ret'.op = "start_recording" /\ Made(calls', "start_recording", "raised"))
        => /\ ~ret'.success
           /\ ret'.raised = None
           /\ ret'.session = NoSession
           /\ ~rec'.recording
           /\ mgr'.current_session = mgr.current_session
           /\ Len(sessions') = Len(sessions)
           /\ \A i \in 1..Len(sessions) :
                 sessions'[i] = sessions[i] \/ sessions'[i] = Collected(i) ]_vars

\* stream.start() raised while the use case held an earlier, stopped session.
C21_Witness ==
    /\ ret.op = "start_recording"
    /\ Made(calls, "start_recording", "raised")
    /\ ret.error_message = "Failed to start recording: " \o "Error starting stream"
    /\ mgr.current_session # NoSession
    /\ sessions[mgr.current_session].state = "processing"
    /\ rec.stream = "open"

\* -------------------------------------------------------- temporary files
\* C22: when transcribe has returned or raised, the temporary file it made
\* for the model does not exist.
C22_TempFileGone ==
    ret.op = "transcribe" => whisper.temp_path \notin whisper.files

\* ------------------------------------------------------- dispatch failures
\* C23: a dispatch whose target window does not exist when it is made
\* reports a failure and types nothing, into no window.
C23_StaleTargetNotRedirected ==
    [][ (ret'.op \in {"send_text_to_target", "SendTextUseCase.execute"}
            /\ win'.asked # NoWindow /\ win'.asked \notin win.windows)
        => (~ret'.success /\ win'.typed = <<>>) ]_vars

\* ------------------------------------------------------ listener recovery
\* C24: once the release handler has ended a cycle, or a press has failed
\* to start one for a reason other than a recording under way, the
\* recorder is not armed: the next press can start a new recording.
C24_ListenerRecovers ==
    ( \/ ret.op = "on_hotkey_release"
      \/ /\ ret.op = "on_hotkey_press"
         /\ ~ret.success
         /\ ret.error_message # "Already recording" )
    => ~rec.recording

\* ------------------------------------------------------- audio validation
\* duration, RMS and peak of a buffer against the validator's limits, the
\* duration in half seconds and the RMS on the squares
DurationBelowMin(a) == 2 * Len(a) < MinDuration * SampleRate

DurationAboveMax(a) == 2 * Len(a) > MaxDuration * SampleRate

RmsBelowSilence(a) ==
    a = <<>> \/ SumSq(a) < SilenceThreshold * SilenceThreshold * Len(a)

PeakBelowLimit(a) == \A i \in 1..Len(a) : Abs(a[i]) < PeakThreshold

\* C25: validate_audio accepts a buffer exactly when its duration is at
\* least min_duration and at most max_duration, its RMS is at least the
\* silence threshold and its peak at least 0.01; the reason of a rejection
\* is that of the first failing check in the order too short, too long, too
\* quiet, volume too low.
C25_ValidateAudio ==
    (pure.fn = "validate_audio" /\ pure.done) =>
        LET a == pure.audio[1]
            reason == IF DurationBelowMin(a) THEN "Audio too short"
                      ELSE IF DurationAboveMax(a) THEN "Audio too long"
                      ELSE IF RmsBelowSilence(a) THEN "Audio is too quiet"
                      ELSE IF PeakBelowLimit(a) THEN "Audio volume too low"
                      ELSE None
        IN  /\ pure.out[1] <=> ( /\ ~DurationBelowMin(a) /\ ~DurationAboveMax(a)
                                 /\ ~RmsBelowSilence(a) /\ ~PeakBelowLimit(a) )
            /\ pure.out[2] = reason

\* A buffer of exactly min_duration was accepted.
C25_Witness ==
    /\ pure.fn = "validate_audio" /\ pure.done
    /\ 2 * Len(pure.audio[1]) = MinDuration * SampleRate
    /\ pure.out = <<TRUE, None>>

\* ----------------------------------------------- transcription validation
\* the trimmed, lowered text is one of the phrases of the list
OnHallucinationList(text) ==
    \E i \in 1..Len(Hallucinations) : Strip(Lower(text)) = Hallucinations[i]

\* the RMS of the source audio is known and below min_rms_for_short_text
SourceRmsLow(source) ==
    /\ source # <<>>
    /\ SumSq(source[1]) < MinRmsForShortText * MinRmsForShortText * Len(source[1])

\* C26: a non-empty text that is not on the hallucination list is rejected
\* by validate_transcription exactly when it has at most 15 characters and
\* the RMS of its source audio is below min_rms_for_short_text.
C26_ShortTextLowRms ==
    ( /\ pure.fn = "validate_transcription" /\ pure.done
      /\ pure.text[1] # <<>>
      /\ ~OnHallucinationList(pure.text[1]) )
    => ( ~pure.out[1] <=>
           (Len(pure.text[1]) <= ShortTextLength /\ SourceRmsLow(pure.audio)) )

\* C27: a text that, trimmed and lowered, is a phrase of the hallucination
\* list is rejected whatever the RMS and whatever its length, and as a
\* hallucination (or as empty), never by the short-text RMS test.
C27_BlocklistFirst ==
    (pure.fn = "validate_transcription" /\ pure.done /\ OnHallucinationList(pure.text[1]))
    => /\ ~pure.out[1]
       /\ pure.out[2] = IF Strip(pure.text[1]) = <<>> THEN "Empty transcription"
                        ELSE "Likely hallucination"

\* A listed phrase of more than 15 characters, in mixed case and from loud
\* audio, was rejected.
C27_Witness ==
    /\ pure.fn = "validate_transcription" /\ pure.done
    /\ OnHallucinationList(pure.text[1])
    /\ Len(pure.text[1]) > ShortTextLength
    /\ pure.text[1] # Lower(pure.text[1])
    /\ pure.audio = << <<20, 20>> >>
    /\ pure.out = <<FALSE, "Likely hallucination">>

\* ------------------------------------------------------ command parsing
\* parse was given a string that is not blank
ParsedText == pure.fn = "parse" /\ pure.done /\ pure.text # <<>> /\ Strip(pure.text[1]) # <<>>

\* the categories in priority order
Categories ==
    << [kind |-> "execute", patterns |-> EXECUTE_PATTERNS],
       [kind |-> "window_target", patterns |-> WINDOW_PATTERNS],
       [kind |-> "config", patterns |-> CONFIG_PATTERNS] >>

\* the patterns of category c that the lowered text begins with
Hits(low, c) ==
    {i \in 1..Len(Categories[c].patterns) :
        /\ Len(Categories[c].patterns[i]) <= Len(low)
        /\ \A k \in 1..Len(Categories[c].patterns[i]) :
              low[k] = Categories[c].patterns[i][k]}

Least(S) == CHOOSE x \in S : \A y \in S : x <= y

\* C28: parse classifies the cleaned text by case-insensitive prefix match,
\* Execute before WindowTarget before Config before Text and the first
\* matching pattern of the category in listed order; the command's text is
\* the cleaned text without the matched prefix, trimmed, and execute is
\* true exactly for Execute.
C28_ParsePriority ==
    ParsedText =>
        LET cleaned == CleanText(pure.text[1])
            low == Lower(cleaned)
            matching == {c \in 1..Len(Categories) : Hits(low, c) # {}}
        IN  IF matching = {}
            THEN /\ pure.out.command_type = "text"
                 /\ pure.out.text = cleaned
                 /\ ~pure.out.execute
            ELSE LET c == Least(matching)
                     prefix == Categories[c].patterns[Least(Hits(low, c))]
                     rest == IF Len(prefix) >= Len(cleaned) THEN <<>>
                             ELSE [k \in 1..(Len(cleaned) - Len(prefix)) |->
                                      cleaned[k + Len(prefix)]]
                 IN  /\ pure.out.command_type = Categories[c].kind
                     /\ pure.out.text = Strip(rest)
                     /\ pure.out.execute <=> (Categories[c].kind = "execute")

\* "Execute Mode", in capitals and after a tab, matched the first pattern of
\* the list and not the shorter "execute"; what followed was trimmed.
C28_Witness ==
    /\ ParsedText
    /\ pure.text[1] = <<"\t", "E", "x", "e", "c", "u", "t", "e", " ", "M", "o", "d", "e",
                        " ", " ", "l", "s", " ", " ", "-", "l", "a", " ">>
    /\ pure.out.command_type = "execute"
    /\ pure.out.text = <<"l", "s", " ", "-", "l", "a">>
    /\ pure.out.execute

\* C29: for an empty, whitespace-only or missing text parse returns a Text
\* command with empty text and execute false.
C29_BlankIsEmptyText ==
    ( /\ pure.fn = "parse" /\ pure.done
      /\ \/ pure.text = <<>>
         \/ \A k \in 1..Len(pure.text[1]) : pure.text[1][k] \in {" ", "\t", "\n"} )
    => /\ pure.out.command_type = "text"
       /\ pure.out.text = <<>>
       /\ ~pure.out.execute
       /\ pure.out.target_window = <<>>

\* parse was given whitespace only and returned the empty Text command.
C29_Witness ==
    /\ pure.fn = "parse" /\ pure.done
    /\ pure.text = << <<" ", "\n", "\t", " ">> >>
    /\ pure.out.command_type = "text"
    /\ pure.out.text = <<>>

\* C30: the original_text of the command parse returns is the text parse
\* was given, character for character, whatever the kind of the command.
C30_OriginalTextUntouched ==
    (pure.fn = "parse" /\ pure.done /\ pure.text # <<>>)
    => pure.out.original_text = pure.text[1]

\* ------------------------------------------------------- audio transforms
\* the argument's samples and the samples of the object returned
ArgSamples == pure.arrays[pure.objects[1].data].flat

OutSamples == pure.arrays[pure.objects[pure.out].data].flat

TrimDone == pure.fn = "trim_silence" /\ pure.done

\* C31: for every buffer, threshold and window size trim_silence returns a
\* contiguous sub-range of its input, never longer than the input and never
\* an empty range of a buffer that has samples; an all-silent buffer and a
\* buffer shorter than one window come back unchanged.
C31_TrimIsSubRange ==
    TrimDone =>
        /\ ~pure.raised
        /\ pure.out # 0
        /\ \E s \in 0..Len(ArgSamples) : \E e \in s..Len(ArgSamples) :
              /\ Len(OutSamples) = e - s
              /\ \A k \in 1..(e - s) : OutSamples[k] = ArgSamples[s + k]
        /\ Len(OutSamples) <= Len(ArgSamples)
        /\ (ArgSamples # <<>>) => (OutSamples # <<>>)
        /\ ( \/ Len(ArgSamples) < pure.window_size
             \/ \A k \in 1..Len(ArgSamples) : ArgSamples[k] = 0 )
           => OutSamples = ArgSamples

\* a transform call returns or raises in this step
TransformStep == ~pure.done /\ pure'.done

\* the argument object and its array are as they were
ArgumentKept ==
    /\ pure'.objects[1] = pure.objects[1]
    /\ pure'.arrays[pure.objects[1].data] = pure.arrays[pure.objects[1].data]

\* normalize of all-zero samples returns as many zero samples
ZeroStaysZero ==
    ( /\ pure.fn = "normalize"
      /\ \A k \in 1..Len(ArgSamples) : ArgSamples[k] = 0 )
    => /\ ~pure'.raised
       /\ pure'.out # 0
       /\ LET res == pure'.arrays[pure'.objects[pure'.out].data].flat
          IN  /\ Len(res) = Len(ArgSamples)
              /\ \A k \in 1..Len(res) : res[k] = 0

\* the windows trim_silence looks at, from the front and from the back
LoudAt(i) ==
    LET hi == IF i + pure.window_size > Len(ArgSamples)
              THEN Len(ArgSamples) ELSE i + pure.window_size
        sq == [k \in 1..(hi - i) |-> ArgSamples[i + k] * ArgSamples[i + k]]
        sum[k \in 0..(hi - i)] == IF k = 0 THEN 0 ELSE sum[k - 1] + sq[k]
    IN  hi > i /\ sum[hi - i] > pure.threshold * pure.threshold * (hi - i)

FrontLoud ==
    {i \in 0..(Len(ArgSamples) - pure.window_size - 1) :
        i % (pure.window_size \div 2) = 0 /\ LoudAt(i)}

BackLoud ==
    {i \in 1..(Len(ArgSamples) - pure.window_size) :
        /\ (Len(ArgSamples) - pure.window_size - i) % ((pure.window_size + 1) \div 2) = 0
        /\ LoudAt(i)}

\* trim_silence finds its start at or after its end
TrimFallsBack ==
    LET start == IF FrontLoud = {} THEN 0
                 ELSE CHOOSE i \in FrontLoud : \A j \in FrontLoud : i <= j
        end == IF BackLoud = {} THEN Len(ArgSamples)
               ELSE (CHOOSE i \in BackLoud : \A j \in BackLoud : i >= j) + pure.window_size
    IN  start >= end

\* C32 as stated: every transform leaves the samples, sample rate and
\* channel count of its argument unchanged and returns a new buffer with the
\* same sample rate; normalizing all-zero samples gives all-zero samples.
C32_TransformsReturnNew ==
    [][ TransformStep =>
          /\ ArgumentKept
          /\ ZeroStaysZero
          /\ ~pure'.raised =>
                /\ pure'.out \notin {0, 1}
                /\ pure'.objects[pure'.out].sample_rate = pure.objects[1].sample_rate
      ]_vars

\* C32 (amended): every transform leaves the samples, sample rate and channel
\* count of its argument unchanged and what it returns has the same sample
\* rate; the buffer returned is a new one except that to_mono of data that is
\* not multi-column and trim_silence with start >= end return the argument
\* itself; normalizing all-zero samples gives all-zero samples.
C32_TransformsKeepArgument ==
    [][ TransformStep =>
          /\ ArgumentKept
          /\ ZeroStaysZero
          /\ ~pure'.raised =>
                /\ pure'.out # 0
                /\ pure'.objects[pure'.out].sample_rate = pure.objects[1].sample_rate
                /\ pure'.out = 1 <=>
                      \/ pure.fn = "to_mono" /\ pure.arrays[pure.objects[1].data].columns <= 1
                      \/ pure.fn = "trim_silence" /\ TrimFallsBack
      ]_vars

\* trim_silence found the later pair from the front and the earlier pair
\* from the back, and returned its argument.
C32_Witness ==
    /\ TrimDone
    /\ ~pure.raised
    /\ ArgSamples = SplitPairs
    /\ pure.window_size = 4
    /\ pure.threshold = 1
    /\ pure.out = 1

\* ------------------------------------------------- start while recording
\* C33: a start request while the recorder is armed is rejected with
\* 'Already recording' and changes nothing: the current session and its
\* record, the armed flag, the stream and the blocks captured so far are as
\* they were.
C33_StartWhileArmedChangesNothing ==
    [][ (rec.recording /\ ManageStart) =>
          /\ ~ret'.success
          /\ ret'.error_message = "Already recording"
          /\ ret'.session = NoSession
          /\ rec' = rec
          /\ mgr' = mgr
          /\ mgr.current_session # NoSession =>
                sessions'[mgr.current_session] = sessions[mgr.current_session]
      ]_vars

\* a second start was rejected while the session was recording and blocks
\* were queued
C33_Witness ==
    /\ ret.op = "start_recording"
    /\ ret.error_message = "Already recording"
    /\ rec.recording
    /\ rec.queue # <<>>
    /\ mgr.current_session # NoSession
    /\ sessions[mgr.current_session].state = "recording"

\* ------------------------------------------------------ empty recording
\* the recorder's stop_recording returned a buffer of zero samples
StoppedEmpty(cs) ==
    \E i \in 1..Len(cs) :
        cs[i].call = "stop_recording" /\ cs[i].out = "ok" /\ cs[i].res = << <<>> >>

\* C34: when the recorder was armed and is disarmed with no block captured
\* the buffer returned has zero samples, and the execute cycle on it ends
\* with success false, a 'too short' reason and its session in Error,
\* without the transcriber being invoked.
C34_EmptyRecordingTooShort ==
    [][ ( /\ rec.recording
          /\ rec.queue = <<>>
          /\ Execute
          /\ Made(calls', "stop_recording", "ok")
          /\ ~Made(calls', "validate_audio", "raised") )
        => /\ StoppedEmpty(calls')
           /\ ~rec'.recording
           /\ ~ret'.success
           /\ ret'.error_message = "Audio too short"
           /\ sessions'[ret'.session].state = "error"
           /\ \A i \in 1..Len(calls') : calls'[i].call # "transcribe"
           /\ sent' = <<>>
      ]_vars

\* an execute cycle stopped a recorder that had captured nothing and was
\* turned down as too short
C34_Witness ==
    /\ ret.op = "execute"
    /\ StoppedEmpty(calls)
    /\ ~ret.success
    /\ ret.error_message = "Audio too short"
    /\ sessions[ret.session].state = "error"

\* ------------------------------------------------- stop with a wrong id
\* session_id is not the id of the use case's current session
NotCurrent(session_id) ==
    \/ mgr.current_session = NoSession
    \/ sessions[mgr.current_session].id # session_id

\* this step is stop_recording(StopRecordingRequest(session_id)) returning
StopStep(session_id, fault) ==
    Return(ManageStopResult(sessions, rec, mgr, session_id, fault, clock), <<>>, <<>>)

\* C35: ManageRecordingUseCase.stop_recording with a session id that is not
\* the current session's (no session yet, an unknown id, the id of a session
\* a later start replaced) returns success false with 'Invalid session ID'
\* and leaves the recorder, its blocks and the current session as they were.
C35_WrongIdChangesNothing ==
    [][ \A session_id \in 0..MaxSessions : \A fault \in {"none", "stop"} :
          (NotCurrent(session_id) /\ StopStep(session_id, fault)) =>
             /\ ret'.op = "stop_recording"
             /\ ~ret'.success
             /\ ret'.error_message = "Invalid session ID"
             /\ rec' = rec
             /\ mgr' = mgr
             /\ mgr.current_session # NoSession =>
                   sessions'[mgr.current_session] = sessions[mgr.current_session]
      ]_vars

\* a stop with a stale id was turned down while the second session was
\* recording with blocks queued
C35_Witness ==
    /\ ret.op = "stop_recording"
    /\ ret.error_message = "Invalid session ID"
    /\ mgr.current_session = 2
    /\ sessions[2].state = "recording"
    /\ rec.recording
    /\ rec.queue # <<>>

\* --------------------------------------------- session against recorder
\* C36: after any sequence of start_recording, stop_recording and execute
\* calls on the one recorder, the use case's current session is in state
\* Recording if and only if the recorder is armed.
C36_SessionMatchesRecorder ==
    ( /\ mgr.current_session # NoSession
      /\ sessions[mgr.current_session].state = "recording" )
    <=> rec.recording

\* ------------------------------------------------ two concurrent stops
\* both callers are through, and the stream did not fail to stop
BothStopped ==
    /\ \A t \in Callers : thr.pc[t] = "done"
    /\ \A t \in Callers : thr.raised[t] # "Error stopping stream"

Stopping == {t \in StopThreads : legacy.pc[t] \in {"clear", "loop", "get", "hand"}}

\* C38: when the release callback and the watchdog both call stop_recording
\* for the same recording, the recording is stopped once: one thread goes
\* through the body, and once the threads are back the blocks captured have
\* been handed to process_audio exactly once, as one complete buffer.
C38_StoppedOnce ==
    /\ Cardinality(Stopping) <= 1
    /\ ( /\ legacy.started
         /\ ~legacy.recording
         /\ legacy.put # <<>>
         /\ \A t \in StopThreads : legacy.pc[t] = "idle" )
       => legacy.processed = << Concat(legacy.put) >>

\* ------------------------------------------------------ hooks of a key
\* the hooks of one kind the keyboard library holds for key
ActiveHooks(key, kind) == {h \in kbd.hooks : h.key = key /\ h.kind = kind}

\* C39: after any sequence of register_hotkey, unregister_hotkey,
\* start_listening and stop_listening, every key has at most one active
\* press hook and at most one active release hook, each of them the one
\* stored in registered_hotkeys, and no hook is active while the handler is
\* not listening.
C39_HooksTracked ==
    /\ \A key \in Keys :
          /\ Cardinality(ActiveHooks(key, "press")) <= 1
          /\ Cardinality(ActiveHooks(key, "release")) <= 1
          /\ \A h \in ActiveHooks(key, "press") :
                /\ kbd.registered_hotkeys[key] # <<>>
                /\ kbd.registered_hotkeys[key][1].press_hook = h.id
          /\ \A h \in ActiveHooks(key, "release") :
                /\ kbd.registered_hotkeys[key] # <<>>
                /\ kbd.registered_hotkeys[key][1].release_hook = h.id
    /\ ~kbd.listening => kbd.hooks = {}

====
